---- MODULE Spec2Model ----
(***************************************************************************)
(* A model of the breakeven-calculator scripts:                            *)
(*   fidelity-breakeven-calculator.py, schwab-trade_processor.py,          *)
(*   portfolio-compare.py, ind_spy.py.                                     *)
(*                                                                         *)
(* Numbers.  Python floats are modelled as exact real numbers.  Money is   *)
(* counted in cents, dates in whole days.  The values the interest         *)
(* formulas produce are finite expansions in the base RateDen = 7300       *)
(* (1 + 0.05/365 = 1 + 1/7300) or, for a negative day count, in the base   *)
(* RateDen + 1 (1/(1 + 1/7300) = 1 - 1/7301); such a number is a record    *)
(* [B |-> base, c |-> <<c0, c1, ..>>] standing for c0 + c1/B + c2/B^2 + .. *)
(* with c0 the floor and every other coefficient in 0..B-1.  Ratios of     *)
(* prices and amounts are fractions <<numerator, denominator>>.            *)
(***************************************************************************)
EXTENDS Integers, Sequences, FiniteSets, TLC

VARIABLES
    TODAY,                  \* the evaluation date (module global, l.15)
    future_disposal_date,   \* the projection date given to project_future_values
    principal,              \* the principal given to an interest function
    start_date,             \* the purchase / trade date given to it
    int_fn,                 \* the interest function that has been applied
    int_ret,                \* what it returned: [interest, adjusted]
    ev_fn,                  \* the lot evaluator that has been applied
    ev_trades,              \* the lots given to it
    ev_resp,                \* the provider's answer to its price lookup
    ev_out,                 \* what it returned: [results, failures]
    trades,                 \* the lots (benchmark_trades) given to a comparison
    list_found,             \* compare_sp500_performance: sp500_list.csv exists
    market,                 \* provider: the series it holds for each ticker
    flaky,                  \* provider: the tickers whose first lookup raises
    lookups,                \* provider: the lookups answered so far, per ticker
    sym_i,                  \* compare_sp500_performance: index of the symbol at hand
    trade_j,                \* compare_sp500_performance: index of the lot at hand
    all_results,            \* compare_sp500_performance: all_results
    all_failures,           \* compare_sp500_performance: all_failures
    bulk_pc,                \* compare_sp500_performance: "idle", "start", "loop", "save", "done"
    saved_results,          \* the rows of sp500_comparison_*.csv, <<>> if not written
    saved_failures,         \* the rows of sp500_failed_final_*.csv, <<>> if not written
    retry_submitted,        \* per symbol, the retries submitted for it
    retry_pc,               \* retry_failed_symbols_once: "idle", "start", "collect", "done"
    retry_in,               \* retry_failed_symbols_once: the argument failures
    retry_pending,          \* retry_failed_symbols_once: symbols whose future is not yet collected
    retry_futures,          \* the futures, per symbol: state "queued", "running",
                            \*   "finished" or "collected", and what the worker returns
    retry_results,          \* retry_failed_symbols_once: retry_results
    retry_failures,         \* retry_failed_symbols_once: retry_failures
    bench_symbols,          \* compare_against_benchmark: symbols
    bench_i,                \* compare_against_benchmark: index of the symbol at hand
    bench_j,                \* compare_against_benchmark: index of the lot at hand
    bench_results,          \* compare_against_benchmark: results
    bench_pc,               \* compare_against_benchmark: "idle", "loop", "done"
    main_pc,                \* main: "idle", "start", "read", "totals", "saved", "returned", "crashed"
    main_error,             \* main: the uncaught exception that ended it, "" if none
    lines_read,             \* main: the lines of the input file read so far
    results,                \* main: results, the rows of the lots
    benchmark_trades,       \* main: benchmark_trades
    main_args,              \* main: the disposal date given, and whether the input file exists
    main_message,           \* main: the error message printed before returning, "" if none
    line,                   \* main: the line of the file at hand
    lot_lines,              \* history: the non-blank, non-header lines read so far
    total_row,              \* main: the TOTAL row appended to results, <<>> before
    future_rows,            \* project_future_values: the rows of the lots
    future_total_row,       \* project_future_values: the FUTURE TOTAL row, <<>> before
    output_file,            \* the rows of the report file, <<>> if not written
    an_start_date,          \* analyze_sp500: start_date
    an_end_date,            \* analyze_sp500: end_date
    an_idx,                 \* analyze_sp500: index of the row of df_info at hand
    an_results,             \* analyze_sp500: results
    an_failed,              \* analyze_sp500: failed
    an_saved_failed,        \* the rows of sp500_failed_fetches.csv, <<>> if not written
    an_pc,                  \* analyze_sp500: "idle", "loop", "save", "done"; then
                            \*   "reported" or "crashed"
    an_report,              \* the rows of sp500_growth_comparison_*.csv, <<>> if not written
    tp_pc,                  \* trade processor: "idle", "start", "parse", "breakdown",
                            \*   "summary", "done", "returned", "crashed"
    tp_args,                \* trade processor: -i ("" if not given, "missing", "file"), -c
    content,                \* trade processor: the text of the file, or the text typed
    tp_trades,              \* trade processor: trades
    tp_error,               \* trade processor: the uncaught exception that ended it
    tp_message,             \* trade processor: the message printed before returning
    trades_csv,             \* the rows appended to trades.csv
    tp_exports,             \* the files export_summary_csv wrote, one per symbol
    pf_pc,                  \* portfolio-compare: "idle", "start", "last_trading_day",
                            \*   "read", "loaded", "rows", "spy_rows", "summary", "saved",
                            \*   "returned", "crashed"
    pf_args,                \* portfolio-compare: the end date typed, whether the csv exists
    pf_spy_days,            \* provider: the days for which it holds SPY data
    pf_spy_raises,          \* provider: the days for which its SPY lookup raises
    pf_target,              \* get_last_trading_day_before: target_date
    pf_end_date,            \* portfolio-compare: end_date_str, NoDate before
    pf_message,             \* portfolio-compare: the message printed before returning
    pf_error,               \* portfolio-compare: the uncaught exception that ended it
    pf_input,               \* portfolio-compare: df_input, the rows of the csv
    pf_row,                 \* portfolio-compare: index of the row at hand in a loop
    pf_results,             \* portfolio-compare: results
    pf_total_invested,      \* portfolio-compare: total_invested, in cents
    pf_total_value,         \* portfolio-compare: total_value, a fraction of cents
    pf_total_spy_value,     \* portfolio-compare: total_spy_value, a fraction of cents
    pf_spy_data,            \* portfolio-compare: spy_data, <<day -> close>> or None
    pf_outcomes,            \* history: how each row of the first loop ended
    pf_output               \* the rows of portfolio_performance_*.csv, <<>> if not written

interestVars == <<TODAY, future_disposal_date, principal, start_date, int_fn, int_ret>>
evalVars == <<ev_fn, ev_trades, ev_resp, ev_out>>

providerVars == <<market, flaky, lookups>>
retryVars == <<retry_pc, retry_in, retry_pending, retry_futures, retry_results,
               retry_failures>>
bulkVars == <<list_found, providerVars, sym_i, trade_j, all_results, all_failures,
              bulk_pc, saved_results, saved_failures, retry_submitted, retryVars>>
benchVars == <<bench_symbols, bench_i, bench_j, bench_results, bench_pc>>
mainVars == <<main_pc, main_error, lines_read, results, benchmark_trades, main_args,
              main_message, line, lot_lines, total_row, future_rows, future_total_row,
              output_file>>

analyzeVars == <<an_start_date, an_end_date, an_idx, an_results, an_failed,
                 an_saved_failed, an_pc, an_report>>

tradeVars == <<tp_pc, tp_args, content, tp_trades, tp_error, tp_message, trades_csv,
               tp_exports>>
performanceVars == <<pf_input, pf_row, pf_results, pf_total_invested, pf_total_value,
                     pf_total_spy_value, pf_spy_data, pf_outcomes, pf_output>>
portfolioVars == <<pf_pc, pf_args, pf_spy_days, pf_spy_raises, pf_target, pf_end_date,
                   pf_message, pf_error, performanceVars>>
toolVars == <<tradeVars, portfolioVars>>

vars == <<interestVars, evalVars, trades, bulkVars, benchVars, mainVars, analyzeVars,
          toolVars>>

\* What an action of one part of the model leaves alone.
exceptInterest == <<evalVars, trades, bulkVars, benchVars, mainVars, analyzeVars, toolVars>>
exceptEval == <<interestVars, trades, bulkVars, benchVars, mainVars, analyzeVars, toolVars>>
exceptBulk == <<interestVars, evalVars, trades, benchVars, mainVars, analyzeVars, toolVars>>
exceptBench == <<interestVars, evalVars, trades, bulkVars, mainVars, analyzeVars, toolVars>>
exceptMain == <<evalVars, trades, bulkVars, benchVars, analyzeVars, toolVars>>
exceptAnalyze == <<interestVars, evalVars, trades, bulkVars, benchVars, mainVars,
                   toolVars>>
exceptTrade == <<interestVars, evalVars, trades, bulkVars, benchVars, mainVars, analyzeVars,
                 portfolioVars>>
exceptPortfolio == <<interestVars, evalVars, trades, bulkVars, benchVars, mainVars,
                     analyzeVars, tradeVars>>

----------------------------------------------------------------------------
(* Bounds of the model *)

MaxDate == 2
MaxPrincipalSteps == 3
PrincipalStep == 50000

MaxPrice == 3
MaxTrades == 2
AmountStep == 1001

NumSymbols == 2
MaxLines == 2
MaxBulkDate == 1
MaxBulkPrice == 1
MaxBulkTrades == 2
MaxRetryFailures == 2
NumRetrySymbols == 4

MaxBlocks == 2
MaxTradeDate == 1
TradeStep == 5000
MaxBack == 1
MaxRows == 2
MaxRowDate == 0
MaxAdjClose == 2
MaxQuotes == 1

Dates == 0..MaxDate
Prices == 0..MaxPrice
Amounts == {0, AmountStep}
Principals == {k * PrincipalStep : k \in 0..MaxPrincipalSteps}

----------------------------------------------------------------------------
(* Program constants *)

SAVINGS_RATE_PERCENT == 5
DAYS_PER_YEAR == 365

\* ThreadPoolExecutor(max_workers=3)
max_workers == 3

\* 1 + SAVINGS_RATE / 365 = 1 + 5/36500 = 1 + 1/RateDen
RateDen == (100 * DAYS_PER_YEAR) \div SAVINGS_RATE_PERCENT

----------------------------------------------------------------------------
(* Exact arithmetic on finite base-B expansions *)

RECURSIVE Carry(_, _, _)
Carry(B, c, carry) ==
    IF Len(c) = 1 THEN <<c[1] + carry>>
    ELSE LET v == c[Len(c)] + carry
         IN  Append(Carry(B, SubSeq(c, 1, Len(c) - 1), v \div B), v % B)

RECURSIVE Trim(_)
Trim(c) ==
    IF Len(c) > 1 /\ c[Len(c)] = 0 THEN Trim(SubSeq(c, 1, Len(c) - 1)) ELSE c

\* The canonical form: floor first, digits in 0..B-1, no trailing zero; an
\* integer is written in the base RateDen.
Normalize(B, c) ==
    LET t == Trim(Carry(B, c, 0))
    IN  [B |-> IF Len(t) = 1 THEN RateDen ELSE B, c |-> t]

NumInt(n) == [B |-> RateDen, c |-> <<n>>]
NumMulInt(x, k) == Normalize(x.B, [i \in DOMAIN x.c |-> x.c[i] * k])
NumAddInt(x, n) == Normalize(x.B, [x.c EXCEPT ![1] = @ + n])
NumFloor(x) == x.c[1]
NumIsInt(x) == Len(x.c) = 1
NumGeInt(x, n) == NumFloor(NumAddInt(x, -n)) >= 0

\* Coefficients of (1 + s/B)^n for s in {1, -1}: one multiplication by
\* (1 + s/B) per day.
RECURSIVE PowCoeffs(_, _)
PowCoeffs(s, n) ==
    IF n = 0 THEN <<1>>
    ELSE LET p == PowCoeffs(s, n - 1)
         IN  [i \in 1..(Len(p) + 1) |->
                 (IF i <= Len(p) THEN p[i] ELSE 0) + (IF i > 1 THEN s * p[i - 1] ELSE 0)]

\* (1 + SAVINGS_RATE / 365) ** days
GrowthFactor(days) ==
    IF days >= 0 THEN Normalize(RateDen, PowCoeffs(1, days))
    ELSE Normalize(RateDen + 1, PowCoeffs(-1, -days))

----------------------------------------------------------------------------
(* The interest functions *)

\* A faulty variant: the day count taken the wrong way round.
compute_interest_adjusted_cost_swapped(purchase_date, cost_basis_total) ==
    LET days_held == purchase_date - TODAY
        interest == NumMulInt(NumAddInt(GrowthFactor(days_held), -1), cost_basis_total)
    IN  [interest |-> interest, adjusted |-> NumAddInt(interest, cost_basis_total)]

compute_interest_adjusted_cost(purchase_date, cost_basis_total) ==
    LET days_held == TODAY - purchase_date
        interest == NumMulInt(NumAddInt(GrowthFactor(days_held), -1), cost_basis_total)
    IN  [interest |-> interest, adjusted |-> NumAddInt(interest, cost_basis_total)]

\* project_future_values, the interest of one lot (l.322-324)
future_interest_of(purchase_date, cost_basis) ==
    LET days_held_future == future_disposal_date - purchase_date
        future_interest == NumMulInt(NumAddInt(GrowthFactor(days_held_future), -1), cost_basis)
    IN  [interest |-> future_interest, adjusted |-> NumAddInt(future_interest, cost_basis)]

\* schwab-trade_processor.py: principal * rate * days / 365, rate = 0.05
calculate_interest(p, trade_date) ==
    LET days == TODAY - trade_date
    IN  Normalize(RateDen, <<0, p * days>>)

----------------------------------------------------------------------------
(* Fractions <<n, d>>, d > 0, kept in lowest terms *)

RECURSIVE Gcd(_, _)
Gcd(a, b) == IF b = 0 THEN a ELSE Gcd(b, a % b)

Abs(n) == IF n < 0 THEN -n ELSE n

Frac(n, d) ==
    LET g == Gcd(Abs(n), d)
    IN  <<n \div g, d \div g>>

FracMulInt(x, k) == Frac(x[1] * k, x[2])
FracSubInt(x, k) == Frac(x[1] - k * x[2], x[2])
FracDivInt(x, k) == IF k > 0 THEN Frac(x[1], x[2] * k) ELSE Frac(-x[1], x[2] * (-k))

\* round(x): to the nearest integer, a tie to the even one
RoundHalfEven(x) ==
    LET q == (2 * x[1] + x[2]) \div (2 * x[2])
        tie == (2 * x[1] + x[2]) % (2 * x[2]) = 0
    IN  IF tie /\ q % 2 = 1 THEN q - 1 ELSE q

\* A faulty variant: the value cut off instead of rounded.
Round2Truncating(x) == x[1] \div x[2]

\* round(x, 2) of an amount x counted in hundredths: the nearest hundredth
Round2(x) == RoundHalfEven(x)

----------------------------------------------------------------------------
(* The price lookup collaborator and the lot evaluators *)

\* A price series: (date, close) pairs, ascending by date, no date twice.
RECURSIVE SeriesFrom(_)
SeriesFrom(d) ==
    IF d > MaxDate THEN {<<>>}
    ELSE LET rest == SeriesFrom(d + 1)
         IN  rest \cup {<<[date |-> d, close |-> p]>> \o r : p \in Prices, r \in rest}

PriceSeries == SeriesFrom(0)

\* What yf.download gives: a series (empty for an unknown symbol), or an exception.
Responses == {[raised |-> FALSE, data |-> s] : s \in PriceSeries}
                 \cup {[raised |-> TRUE, data |-> <<>>]}

Trades == [PurchaseDate : Dates, OriginalCostBasis : Amounts]

RECURSIVE SeqsUpTo(_, _)
SeqsUpTo(S, n) ==
    IF n = 0 THEN {<<>>}
    ELSE LET shorter == SeqsUpTo(S, n - 1)
         IN  shorter \cup {Append(q, x) : q \in {r \in shorter : Len(r) = n - 1}, x \in S}

TradeLists == {q \in SeqsUpTo(Trades, MaxTrades) : q # <<>>}

NoDate == -1

ErrLookup == "lookup failed"
ErrNoData == "No data returned for symbol on or after purchase date."
ErrEmptyData == "Empty data returned"
ErrNoPrice == "No price available on or after trade date."
ErrIndex == "single positional indexer is out-of-bounds"
ErrZeroDivision == "float division by zero"

\* data.loc[data.index >= purchase_date, 'Close']
OnOrAfter(data, purchase_date) == SelectSeq(data, LAMBDA e : e.date >= purchase_date)

Failure(symbol, date, error) == [Symbol |-> symbol, Date |-> date, Error |-> error]

\* A faulty variant: the purchase price taken from the first entry of the whole series.
PurchasePriceFirstOfData(data, purchase_date) == data[1].close

\* price.iloc[0]: the close of the first entry on or after the purchase date
PurchasePrice(data, purchase_date) == OnOrAfter(data, purchase_date)[1].close

\* data['Close'].iloc[-1]
CurrentPrice(data) == data[Len(data)].close

\* shares, current_value, percent_change and the result row (l.35-47, l.102-114,
\* l.248-260); a division by zero raises ZeroDivisionError.
LotArithmetic(symbol, trade, data) ==
    LET purchase_date == trade.PurchaseDate
        investment_amount == trade.OriginalCostBasis
        purchase_price == PurchasePrice(data, purchase_date)
        current_price == CurrentPrice(data)
    IN  IF purchase_price = 0 \/ investment_amount = 0
        THEN [results |-> <<>>,
              failures |-> <<Failure(symbol, purchase_date, ErrZeroDivision)>>]
        ELSE LET shares == Frac(investment_amount, purchase_price)
                 current_value == FracMulInt(shares, current_price)
                 percent_change ==
                     FracMulInt(FracDivInt(FracSubInt(current_value, investment_amount),
                                           investment_amount), 100)
             IN  [results |-> <<[Symbol |-> symbol,
                                 PurchaseDate |-> purchase_date,
                                 InvestmentAmount |-> investment_amount,
                                 CurrentValue |-> Round2(current_value),
                                 PercentChange |-> Round2(FracMulInt(percent_change, 100))]>>,
                  failures |-> <<>>]

\* The body both process_symbol_lot and compare_sp500_performance run for one
\* (symbol, lot) pair: the two checks, then the arithmetic, every exception
\* turned into a failure record.
CheckedLot(symbol, trade, resp) ==
    IF resp.raised
    THEN [results |-> <<>>, failures |-> <<Failure(symbol, trade.PurchaseDate, ErrLookup)>>]
    ELSE IF resp.data = <<>>
    THEN [results |-> <<>>, failures |-> <<Failure(symbol, trade.PurchaseDate, ErrNoData)>>]
    ELSE IF OnOrAfter(resp.data, trade.PurchaseDate) = <<>>
    THEN [results |-> <<>>, failures |-> <<Failure(symbol, trade.PurchaseDate, ErrNoPrice)>>]
    ELSE LotArithmetic(symbol, trade, resp.data)

process_symbol_lot(symbol, trade, resp) == CheckedLot(symbol, trade, resp)

\* One lot of process_sp500_symbol (l.97-120): no check of the filtered series,
\* .iloc[0] of an empty one raises IndexError.
Sp500Lot(symbol, trade, data) ==
    IF OnOrAfter(data, trade.PurchaseDate) = <<>>
    THEN [results |-> <<>>, failures |-> <<Failure(symbol, trade.PurchaseDate, ErrIndex)>>]
    ELSE LotArithmetic(symbol, trade, data)

RECURSIVE Sp500Lots(_, _, _)
Sp500Lots(symbol, lots, data) ==
    IF lots = <<>> THEN [results |-> <<>>, failures |-> <<>>]
    ELSE LET first == Sp500Lot(symbol, Head(lots), data)
             rest == Sp500Lots(symbol, Tail(lots), data)
         IN  [results |-> first.results \o rest.results,
              failures |-> first.failures \o rest.failures]

process_sp500_symbol(symbol, lots, resp) ==
    IF resp.raised
    THEN [results |-> <<>>, failures |-> <<Failure(symbol, NoDate, ErrLookup)>>]
    ELSE IF resp.data = <<>>
    THEN [results |-> <<>>, failures |-> <<Failure(symbol, NoDate, ErrEmptyData)>>]
    ELSE Sp500Lots(symbol, lots, resp.data)

----------------------------------------------------------------------------
(* The lot evaluators applied to drawn inputs *)

EvalSymbol == "BRK.B"

NoOut == [results |-> <<>>, failures |-> <<>>]

EvalIdle ==
    /\ ev_fn = "none"
    /\ ev_trades = <<>>
    /\ ev_resp = [raised |-> FALSE, data |-> <<>>]
    /\ ev_out = NoOut

ApplyProcessSymbolLot ==
    /\ ev_fn = "none"
    /\ \E trade \in Trades, resp \in Responses :
          /\ ev_fn' = "process_symbol_lot"
          /\ ev_trades' = <<trade>>
          /\ ev_resp' = resp
          /\ ev_out' = process_symbol_lot(EvalSymbol, trade, resp)
    /\ UNCHANGED exceptEval

ApplyProcessSp500Symbol ==
    /\ ev_fn = "none"
    /\ \E lots \in TradeLists, resp \in Responses :
          /\ ev_fn' = "process_sp500_symbol"
          /\ ev_trades' = lots
          /\ ev_resp' = resp
          /\ ev_out' = process_sp500_symbol(EvalSymbol, lots, resp)
    /\ UNCHANGED exceptEval

NextEval ==
    \/ ApplyProcessSymbolLot
    \/ ApplyProcessSp500Symbol

----------------------------------------------------------------------------
(* The bulk comparison: compare_sp500_performance *)

\* sp500_list.csv, column Symbol, after dropna().unique(): the first NumSymbols
\* of these.
Sp500Column == <<"BRK.B", "AAPL", "MMM", "ZTS">>
symbols == SubSeq(Sp500Column, 1, NumSymbols)

\* symbol.replace('.', '-')
YfSymbol(symbol) == IF symbol = "BRK.B" THEN "BRK-B" ELSE symbol

Tickers == {YfSymbol(symbols[i]) : i \in DOMAIN symbols}

\* In the bulk model the provider holds at most two quotes per ticker, of
\* rising dates.
BulkQuotes == [date : 0..MaxBulkDate, close : 0..MaxBulkPrice]
BulkSeries == {<<>>} \cup {<<q>> : q \in BulkQuotes}
                  \cup {<<q, r>> : <<q, r>> \in {x \in BulkQuotes \X BulkQuotes :
                                                     x[1].date < x[2].date}}
BulkTrades == [PurchaseDate : 0..MaxBulkDate, OriginalCostBasis : {AmountStep}]
BulkTradeLists == {q \in SeqsUpTo(BulkTrades, MaxBulkTrades) : q # <<>>}

\* yf.download(ticker, ...): the first lookup of a flaky ticker raises, every
\* other lookup is answered with the series the provider holds.
Download(ticker) ==
    IF ticker \in flaky /\ lookups[ticker] = 0
    THEN [raised |-> TRUE, data |-> <<>>]
    ELSE [raised |-> FALSE, data |-> market[ticker]]

\* A faulty variant: the rows kept in their order of arrival.
InsertInOrderOfArrival(sorted, row) == Append(sorted, row)

\* df.sort_values(by='Percent Change', ascending=False): rows by falling percent
\* change, rows of equal percent change in their order of arrival.
RECURSIVE InsertDescending(_, _)
InsertDescending(sorted, row) ==
    IF sorted = <<>> THEN <<row>>
    ELSE IF Head(sorted).PercentChange >= row.PercentChange
         THEN <<Head(sorted)>> \o InsertDescending(Tail(sorted), row)
         ELSE <<row>> \o sorted

RECURSIVE SortDescending(_)
SortDescending(rows) ==
    IF rows = <<>> THEN <<>>
    ELSE InsertDescending(SortDescending(SubSeq(rows, 1, Len(rows) - 1)), rows[Len(rows)])

\* A faulty variant: the loop left at the first failure.
BulkPcAfterStoppingOnFailure(out) ==
    IF out.failures # <<>> THEN "save"
    ELSE IF sym_i = Len(symbols) /\ trade_j = Len(trades) THEN "save" ELSE "loop"

\* Where the two loops stand after one pair: an exception does not leave them.
BulkPcAfter(out) ==
    IF sym_i = Len(symbols) /\ trade_j = Len(trades) THEN "save" ELSE "loop"

BulkIdle ==
    /\ list_found = FALSE
    /\ market = [t \in Tickers |-> <<>>]
    /\ flaky = {}
    /\ lookups = [t \in Tickers |-> 0]
    /\ sym_i = 1
    /\ trade_j = 1
    /\ all_results = <<>>
    /\ all_failures = <<>>
    /\ bulk_pc = "idle"
    /\ saved_results = <<>>
    /\ saved_failures = <<>>
    /\ retry_submitted = [i \in DOMAIN symbols |-> 0]
    /\ retry_pc = "idle"
    /\ retry_in = <<>>
    /\ retry_pending = {}
    /\ retry_futures = <<>>
    /\ retry_results = <<>>
    /\ retry_failures = <<>>

\* l.216-230: read the symbol list, or print and return when it is missing
BulkStart ==
    /\ bulk_pc = "start"
    /\ bulk_pc' = IF list_found THEN "loop" ELSE "done"
    /\ UNCHANGED <<list_found, providerVars, sym_i, trade_j, all_results,
                   all_failures, saved_results, saved_failures, retry_submitted,
                   retryVars>>
    /\ UNCHANGED exceptBulk

\* l.232-274: one (symbol, lot) pair
BulkPair ==
    /\ bulk_pc = "loop"
    /\ LET symbol == symbols[sym_i]
           yf_symbol == YfSymbol(symbol)
           out == CheckedLot(symbol, trades[trade_j], Download(yf_symbol))
       IN  /\ lookups' = [lookups EXCEPT ![yf_symbol] = @ + 1]
           /\ all_results' = all_results \o out.results
           /\ all_failures' = all_failures \o out.failures
           /\ bulk_pc' = BulkPcAfter(out)
    /\ IF trade_j < Len(trades)
       THEN trade_j' = trade_j + 1 /\ sym_i' = sym_i
       ELSE trade_j' = 1 /\ sym_i' = sym_i + 1
    /\ UNCHANGED <<list_found, market, flaky, saved_results, saved_failures,
                   retry_submitted, retryVars>>
    /\ UNCHANGED exceptBulk

\* l.276-287: the two files
BulkSave ==
    /\ bulk_pc = "save"
    /\ saved_results' = SortDescending(all_results)
    /\ saved_failures' = all_failures
    /\ bulk_pc' = "done"
    /\ UNCHANGED <<list_found, providerVars, sym_i, trade_j, all_results,
                   all_failures, retry_submitted, retryVars>>
    /\ UNCHANGED exceptBulk

NextBulk ==
    \/ BulkStart
    \/ BulkPair
    \/ BulkSave

----------------------------------------------------------------------------
(* The retry pass: retry_failed_symbols_once.  No function of the scripts     *)
(* calls it; it is modelled on its own, applied to a drawn failure list.      *)

\* The symbols of the failure records given to it
RetryColumn == <<"BRK.B", "AAPL", "MMM", "ZTS", "NVDA", "KO">>
RetrySymbols == SubSeq(RetryColumn, 1, NumRetrySymbols)
RetryTickers == {YfSymbol(RetrySymbols[i]) : i \in DOMAIN RetrySymbols}

\* In the model of the retry pass the provider holds, per ticker, no quote or
\* one quote of day 0.
RetrySeries == {<<>>, <<[date |-> 0, close |-> 1]>>}

\* The failure records given to it: one for each of the first k symbols, then
\* up to MaxRetryFailures more, of the first symbol again or of no symbol.
RetryFailureRecords == {Failure(f, NoDate, ErrLookup) : f \in {RetrySymbols[1], ""}}
RetryInputs ==
    {[i \in 1..k |-> Failure(RetrySymbols[i], NoDate, ErrLookup)] \o more :
        k \in 0..NumRetrySymbols, more \in SeqsUpTo(RetryFailureRecords, MaxRetryFailures)}

\* l.63: list(set(f['Symbol'] for f in failures if f['Symbol']))
symbols_to_retry(failures) ==
    {failures[k].Symbol : k \in {n \in DOMAIN failures : failures[n].Symbol # ""}}

\* The futures in a given state
FuturesIn(state) == {f \in DOMAIN retry_futures : retry_futures[f].state = state}

\* l.69-70: one future per symbol to retry
RetrySubmit ==
    /\ retry_pc = "start"
    /\ retry_pending' = symbols_to_retry(retry_in)
    /\ retry_futures' = [f \in symbols_to_retry(retry_in) |-> [state |-> "queued", out |-> NoOut]]
    /\ retry_submitted' = [i \in DOMAIN symbols |->
                              retry_submitted[i]
                                  + (IF symbols[i] \in symbols_to_retry(retry_in) THEN 1 ELSE 0)]
    /\ retry_pc' = IF symbols_to_retry(retry_in) = {} THEN "done" ELSE "collect"
    /\ UNCHANGED <<retry_in, retry_results, retry_failures>>
    /\ UNCHANGED <<list_found, providerVars, sym_i, trade_j, all_results, all_failures,
                   bulk_pc, saved_results, saved_failures>>
    /\ UNCHANGED exceptBulk

\* A faulty variant: a pool that starts every future at once.
WorkerFreeAlways(running) == TRUE

\* ThreadPoolExecutor(max_workers=3) (l.69): a queued future starts when fewer
\* than max_workers are running
WorkerFree(running) == Cardinality(running) < max_workers

\* l.66-67, l.86-95: a worker takes a future and looks the symbol up
RetryWorkerStart ==
    /\ retry_pc = "collect"
    /\ WorkerFree(FuturesIn("running"))
    /\ \E symbol \in FuturesIn("queued") :
          LET yf_symbol == YfSymbol(symbol)
          IN  /\ lookups' = [lookups EXCEPT ![yf_symbol] = @ + 1]
              /\ retry_futures' =
                     [retry_futures EXCEPT ![symbol] =
                         [state |-> "running",
                          out |-> process_sp500_symbol(symbol, trades, Download(yf_symbol))]]
    /\ UNCHANGED <<retry_pc, retry_in, retry_pending, retry_results, retry_failures,
                   retry_submitted>>
    /\ UNCHANGED <<list_found, market, flaky, sym_i, trade_j, all_results, all_failures,
                   bulk_pc, saved_results, saved_failures>>
    /\ UNCHANGED exceptBulk

\* l.97-131: the worker returns; process_sp500_symbol catches every exception
\* itself
RetryWorkerFinish ==
    /\ retry_pc = "collect"
    /\ \E symbol \in FuturesIn("running") :
          retry_futures' = [retry_futures EXCEPT ![symbol].state = "finished"]
    /\ UNCHANGED <<retry_pc, retry_in, retry_pending, retry_results, retry_failures,
                   retry_submitted>>
    /\ UNCHANGED <<list_found, providerVars, sym_i, trade_j, all_results, all_failures,
                   bulk_pc, saved_results, saved_failures>>
    /\ UNCHANGED exceptBulk

\* A faulty variant: the accumulator replaced by the rows of the last future.
ExtendReplacing(accumulator, rows) == rows

\* l.76-77: retry_results.extend(results), retry_failures.extend(failures)
Extend(accumulator, rows) == accumulator \o rows

\* l.72-79: as_completed hands over a finished future
RetryCollect ==
    /\ retry_pc = "collect"
    /\ \E symbol \in FuturesIn("finished") :
          /\ retry_results' = Extend(retry_results, retry_futures[symbol].out.results)
          /\ retry_failures' = Extend(retry_failures, retry_futures[symbol].out.failures)
          /\ retry_futures' = [retry_futures EXCEPT ![symbol].state = "collected"]
          /\ retry_pending' = retry_pending \ {symbol}
          /\ retry_pc' = IF retry_pending = {symbol} THEN "done" ELSE "collect"
    /\ UNCHANGED <<retry_in, retry_submitted>>
    /\ UNCHANGED <<list_found, providerVars, sym_i, trade_j, all_results, all_failures,
                   bulk_pc, saved_results, saved_failures>>
    /\ UNCHANGED exceptBulk

NextRetry ==
    \/ RetrySubmit
    \/ RetryWorkerStart
    \/ RetryWorkerFinish
    \/ RetryCollect

----------------------------------------------------------------------------
(* The benchmark comparison: compare_against_benchmark *)

\* The lots main hands over: any cost basis, 0 included
BenchTradeLists ==
    {q \in SeqsUpTo([PurchaseDate : 0..MaxBulkDate, OriginalCostBasis : Amounts],
                    MaxBulkTrades) : q # <<>>}

\* ['SPY'] + the symbols the user enters
BenchmarkSymbolLists == {<<"SPY">>, <<"SPY", "QQQ">>}

BulkResponses == {[raised |-> FALSE, data |-> q] : q \in BulkSeries}
                     \cup {[raised |-> TRUE, data |-> <<>>]}

\* The failure records compare_against_benchmark keeps: it has no such list and
\* returns only (benchmark_df, symbols).
benchmark_failures == <<>>

\* l.162-179, one (symbol, lot) pair: an empty answer and every exception end
\* in `continue`.
BenchmarkLot(symbol, trade, resp) ==
    IF resp.raised \/ resp.data = <<>> THEN <<>>
    ELSE IF OnOrAfter(resp.data, trade.PurchaseDate) = <<>> THEN <<>>
    ELSE LotArithmetic(symbol, trade, resp.data).results

BenchIdle ==
    /\ bench_symbols = <<>>
    /\ bench_i = 1
    /\ bench_j = 1
    /\ bench_results = <<>>
    /\ bench_pc = "idle"

BenchPair ==
    /\ bench_pc = "loop"
    /\ \E resp \in BulkResponses :
          bench_results' = bench_results
                               \o BenchmarkLot(bench_symbols[bench_i], trades[bench_j], resp)
    /\ IF bench_j < Len(trades)
       THEN bench_j' = bench_j + 1 /\ bench_i' = bench_i
       ELSE bench_j' = 1 /\ bench_i' = bench_i + 1
    /\ bench_pc' = IF bench_i = Len(bench_symbols) /\ bench_j = Len(trades)
                   THEN "done" ELSE "loop"
    /\ UNCHANGED bench_symbols
    /\ UNCHANGED exceptBench

NextBench == BenchPair

----------------------------------------------------------------------------
(* main of fidelity-breakeven-calculator.py: reading the lots *)

\* The text of a column: what it denotes, or junk.
DateTexts == {[kind |-> "date", val |-> d] : d \in Dates} \cup {[kind |-> "junk", val |-> 0]}
QuantityTexts == {[kind |-> k, val |-> n] : k \in {"int", "decimal"}, n \in {-1, 0, 1, 3}}
                     \cup {[kind |-> "junk", val |-> 0]}
CostTexts == {[kind |-> "money", val |-> c] : c \in {-PrincipalStep, 0, PrincipalStep}}
                 \cup {[kind |-> "junk", val |-> 0]}

JunkText == [kind |-> "junk", val |-> 0]

\* The lines of a lot that parse_line reads to the end.
LotLines == [kind : {"data"}, indent : {FALSE}, cols : {8},
             date : {t \in DateTexts : t.kind = "date"},
             qty : {t \in QuantityTexts : t.kind = "int"},
             cost : {t \in CostTexts : t.kind = "money"}]

\* A lot line with one defect: a column missing, or a text that does not read.
DefectLines ==
    LET base == [kind |-> "data", indent |-> FALSE, cols |-> 8,
                 date |-> [kind |-> "date", val |-> 0],
                 qty |-> [kind |-> "int", val |-> 1],
                 cost |-> [kind |-> "money", val |-> PrincipalStep]]
    IN  {[base EXCEPT !.cols = n] : n \in {1, 6}}
            \cup {[base EXCEPT !.date = JunkText]}
            \cup {[base EXCEPT !.qty = t] : t \in {u \in QuantityTexts : u.kind # "int"}}
            \cup {[base EXCEPT !.cost = JunkText]}

\* A line of the input file: blank ('' or white space), a header (the word
\* Acquired first, or after white space), or tab-separated columns of which the
\* 1st, 6th and 8th are read.
Lines ==
    [kind : {"blank", "header"}, indent : BOOLEAN, cols : {0}, date : {JunkText},
     qty : {JunkText}, cost : {JunkText}]
        \cup LotLines \cup DefectLines

\* A faulty variant: only blank lines are skipped.
SkippedBlankOnly(ln) == ln.kind = "blank"

\* l.415: not line.strip() or line.lower().startswith('acquired')
Skipped(ln) ==
    \/ ln.kind = "blank"
    \/ ln.kind = "header" /\ ~ln.indent

\* parse_line: strptime, int and float in this order, each raising on a text
\* it cannot read, an index past the last column raising IndexError.
parse_line(ln) ==
    IF ln.kind = "header" \/ ln.date.kind # "date" THEN [error |-> "ValueError"]
    ELSE IF ln.cols < 6 THEN [error |-> "IndexError"]
    ELSE IF ln.qty.kind # "int" THEN [error |-> "ValueError"]
    ELSE IF ln.cols < 8 THEN [error |-> "IndexError"]
    ELSE IF ln.cost.kind # "money" THEN [error |-> "ValueError"]
    ELSE [error |-> "", purchase_date |-> ln.date.val, quantity |-> ln.qty.val,
          cost_basis_total |-> ln.cost.val]

\* round(x) of an exact number, a tie to the even integer
NumRound(x) ==
    LET y == NumMulInt(x, 2)
        m == NumFloor(y)
    IN  IF NumIsInt(y) /\ m % 2 = 1
        THEN (IF ((m - 1) \div 2) % 2 = 0 THEN (m - 1) \div 2 ELSE (m + 1) \div 2)
        ELSE (m + 1) \div 2

\* round(x / q) for an integer q # 0
NumRoundDiv(x, q) ==
    LET y == IF q > 0 THEN NumMulInt(x, 2) ELSE NumMulInt(x, -2)
        d == IF q > 0 THEN q ELSE -q
        m == NumFloor(y) \div d
        exact == NumIsInt(y) /\ NumFloor(y) % d = 0
    IN  IF exact /\ m % 2 = 1
        THEN (IF ((m - 1) \div 2) % 2 = 0 THEN (m - 1) \div 2 ELSE (m + 1) \div 2)
        ELSE (m + 1) \div 2

MainSymbol == "AAPL"

\* A faulty variant: a zero quantity answered with a price of 0.
breakeven_price_guarded(adjusted_cost, quantity) ==
    IF quantity = 0 THEN [error |-> "", value |-> 0]
    ELSE [error |-> "", value |-> NumRoundDiv(NumMulInt(adjusted_cost, 100), quantity)]

\* l.420, l.432: adjusted_cost / quantity, in 1/10000 of a dollar once rounded
breakeven_price(adjusted_cost, quantity) ==
    IF quantity = 0 THEN [error |-> "ZeroDivisionError", value |-> 0]
    ELSE [error |-> "", value |-> NumRoundDiv(NumMulInt(adjusted_cost, 100), quantity)]

\* l.418-433: the row of one lot
LotRow(lot) ==
    LET adjusted_cost == compute_interest_adjusted_cost(lot.purchase_date,
                                                        lot.cost_basis_total).adjusted
    IN  [Symbol |-> MainSymbol,
         PurchaseDate |-> lot.purchase_date,
         Quantity |-> lot.quantity,
         OriginalCostBasis |-> lot.cost_basis_total,
         HoldingDuration |-> TODAY - lot.purchase_date,
         InterestAccrued |-> NumRound(NumAddInt(adjusted_cost, -lot.cost_basis_total)),
         InterestAdjustedTotalCost |-> NumRound(adjusted_cost),
         BreakevenPrice |-> breakeven_price(adjusted_cost, lot.quantity).value]

NoLine == [kind |-> "blank", indent |-> FALSE, cols |-> 0, date |-> JunkText,
           qty |-> JunkText, cost |-> JunkText]

NoArgs == [disposal |-> [kind |-> "empty", val |-> 0], file_exists |-> FALSE]

MainIdle ==
    /\ main_pc = "idle"
    /\ main_error = ""
    /\ lines_read = 0
    /\ results = <<>>
    /\ benchmark_trades = <<>>
    /\ main_args = NoArgs
    /\ main_message = ""
    /\ line = NoLine
    /\ lot_lines = 0
    /\ total_row = <<>>
    /\ future_rows = <<>>
    /\ future_total_row = <<>>
    /\ output_file = <<>>

\* The disposal date given with -d or typed at the prompt: a date (the last
\* day of the calendar), a text that is no date, or nothing.
DisposalTexts == {[kind |-> "date", val |-> MaxDate], [kind |-> "junk", val |-> 0],
                  [kind |-> "empty", val |-> 0]}

\* datetime(TODAY.year, 12, 31): the last day of the calendar
EndOfYear == MaxDate

ErrDisposal == "Invalid disposal date format. Please use YYYY-MM-DD."
ErrNoFile == "Error: File not found."

\* l.388-411: the disposal date and the input file
MainStart ==
    /\ main_pc = "start"
    /\ IF main_args.disposal.kind = "junk"
       THEN /\ main_pc' = "returned"
            /\ main_message' = ErrDisposal
            /\ UNCHANGED future_disposal_date
       ELSE /\ future_disposal_date' = IF main_args.disposal.kind = "date"
                                       THEN main_args.disposal.val ELSE EndOfYear
            /\ IF main_args.file_exists
               THEN main_pc' = "read" /\ UNCHANGED main_message
               ELSE main_pc' = "returned" /\ main_message' = ErrNoFile
    /\ UNCHANGED <<main_error, lines_read, results, benchmark_trades, main_args, line,
                   lot_lines, total_row, future_rows, future_total_row, output_file>>
    /\ UNCHANGED <<TODAY, principal, start_date, int_fn, int_ret>>
    /\ UNCHANGED exceptMain

\* l.414-438: one line of the file
MainReadLine ==
    /\ main_pc = "read"
    /\ lines_read < MaxLines
    /\ lines_read' = lines_read + 1
    /\ \E ln \in Lines :
          /\ line' = ln
          /\ IF Skipped(ln)
             THEN UNCHANGED <<main_pc, main_error, results, benchmark_trades, lot_lines>>
             ELSE /\ lot_lines' = lot_lines + 1
                  /\ LET lot == parse_line(ln)
                     IN  IF lot.error # ""
                         THEN /\ main_pc' = "crashed"
                              /\ main_error' = lot.error
                              /\ UNCHANGED <<results, benchmark_trades>>
                         ELSE IF breakeven_price(NumInt(0), lot.quantity).error # ""
                         THEN /\ main_pc' = "crashed"
                              /\ main_error' = breakeven_price(NumInt(0), lot.quantity).error
                              /\ UNCHANGED <<results, benchmark_trades>>
                         ELSE /\ results' = Append(results, LotRow(lot))
                              /\ benchmark_trades' =
                                     Append(benchmark_trades,
                                            [PurchaseDate |-> lot.purchase_date,
                                             OriginalCostBasis |-> lot.cost_basis_total])
                              /\ UNCHANGED <<main_pc, main_error>>
    /\ UNCHANGED <<main_args, main_message, total_row, future_rows, future_total_row,
                   output_file>>
    /\ UNCHANGED interestVars
    /\ UNCHANGED exceptMain

\* the end of the file
MainEndOfFile ==
    /\ main_pc = "read"
    /\ main_pc' = "totals"
    /\ UNCHANGED <<main_error, lines_read, results, benchmark_trades, main_args,
                   main_message, line, lot_lines, total_row, future_rows,
                   future_total_row, output_file>>
    /\ UNCHANGED interestVars
    /\ UNCHANGED exceptMain

RECURSIVE SumSeq(_)
SumSeq(q) == IF q = <<>> THEN 0 ELSE Head(q) + SumSeq(Tail(q))

\* round(n / q) for integers n and q # 0
RoundDiv(n, q) == RoundHalfEven(FracDivInt(Frac(n, 1), q))

\* A faulty variant: the TOTAL row holding the sum of the cost bases.
TotalRowWithSummedCostBasis(rows) ==
    LET total_adjusted_cost == SumSeq([k \in DOMAIN rows |-> rows[k].InterestAdjustedTotalCost])
        total_quantity == SumSeq([k \in DOMAIN rows |-> rows[k].Quantity])
    IN  IF total_quantity = 0 THEN [error |-> "ZeroDivisionError"]
        ELSE [error |-> "",
              row |-> [Symbol |-> MainSymbol,
                       PurchaseDate |-> "TOTAL",
                       Quantity |-> total_quantity,
                       OriginalCostBasis |->
                           SumSeq([k \in DOMAIN rows |-> rows[k].OriginalCostBasis]),
                       InterestAccrued |->
                           SumSeq([k \in DOMAIN rows |-> rows[k].InterestAccrued]),
                       InterestAdjustedTotalCost |-> total_adjusted_cost,
                       BreakevenPrice |-> RoundDiv(RoundDiv(total_adjusted_cost * 100,
                                                            total_quantity), 100)]]

\* l.440-467: the sums over the lot rows and the TOTAL row; a total quantity
\* of 0 raises ZeroDivisionError.  Amounts in cents, the average sale price
\* rounded to 4 places (l.445) and then shown with 2 (l.466).
TotalRow(rows) ==
    LET total_adjusted_cost == SumSeq([k \in DOMAIN rows |-> rows[k].InterestAdjustedTotalCost])
        total_quantity == SumSeq([k \in DOMAIN rows |-> rows[k].Quantity])
        total_cost_basis == SumSeq([k \in DOMAIN rows |-> rows[k].OriginalCostBasis])
        total_interest_accrued == SumSeq([k \in DOMAIN rows |-> rows[k].InterestAccrued])
    IN  IF total_quantity = 0 THEN [error |-> "ZeroDivisionError"]
        ELSE LET avg_cost_basis_per_share == RoundDiv(total_cost_basis, total_quantity)
                 avg_sale_price_required == RoundDiv(total_adjusted_cost * 100, total_quantity)
             IN  [error |-> "",
                  row |-> [Symbol |-> MainSymbol,
                           PurchaseDate |-> "TOTAL",
                           Quantity |-> total_quantity,
                           OriginalCostBasis |-> avg_cost_basis_per_share,
                           InterestAccrued |-> total_interest_accrued,
                           InterestAdjustedTotalCost |-> total_adjusted_cost,
                           BreakevenPrice |-> RoundDiv(avg_sale_price_required, 100)]]

\* The value None, or 'N/A' in a row
NotAvailable == <<>>

\* get_spy_performance, one trade (l.191-197): the rounded percent change in
\* 1/100 of a percent, None after any exception
SpyReturn(data, purchase_date) ==
    IF OnOrAfter(data, purchase_date) = <<>> THEN NotAvailable
    ELSE LET purchase_price == PurchasePrice(data, purchase_date)
             current_price == CurrentPrice(data)
         IN  IF purchase_price = 0 THEN NotAvailable
             ELSE <<Round2(FracMulInt(Frac((current_price - purchase_price) * 100,
                                           purchase_price), 100))>>

\* get_spy_performance (l.184-198): the download is outside the try
get_spy_performance(trs, resp) ==
    IF trs = <<>> THEN [error |-> "ValueError"]
    ELSE IF resp.raised THEN [error |-> ErrLookup]
    ELSE [error |-> "",
          spy_returns |-> [d \in {trs[k].PurchaseDate : k \in DOMAIN trs} |->
                              SpyReturn(resp.data, d)]]

\* l.470-475: the column Vs SPY (%) of a lot row
WithVsSpy(row, spy_returns) ==
    [VsSPY |-> IF spy_returns[row.PurchaseDate] = NotAvailable THEN NotAvailable
               ELSE <<-spy_returns[row.PurchaseDate][1]>>] @@ row

\* The sum of two exact numbers of the same base
NumAdd(x, y) ==
    LET B == IF NumIsInt(x) THEN y.B ELSE x.B
        n == IF Len(x.c) > Len(y.c) THEN Len(x.c) ELSE Len(y.c)
    IN  Normalize(B, [i \in 1..n |-> (IF i <= Len(x.c) THEN x.c[i] ELSE 0)
                                         + (IF i <= Len(y.c) THEN y.c[i] ELSE 0)])

RECURSIVE NumSum(_)
NumSum(q) == IF q = <<>> THEN NumInt(0) ELSE NumAdd(Head(q), NumSum(Tail(q)))

\* project_future_values, the row of one lot (l.314-339)
FutureRow(trade) ==
    LET future == future_interest_of(trade.PurchaseDate, trade.OriginalCostBasis)
    IN  [Symbol |-> trade.Symbol,
         PurchaseDate |-> trade.PurchaseDate,
         Quantity |-> trade.Quantity,
         OriginalCostBasis |-> trade.OriginalCostBasis,
         HoldingDuration |-> future_disposal_date - trade.PurchaseDate,
         InterestAccrued |-> NumRound(future.interest),
         InterestAdjustedTotalCost |-> NumRound(future.adjusted),
         BreakevenPrice |-> breakeven_price(future.adjusted, trade.Quantity).value,
         VsSPY |-> NotAvailable]

\* project_future_values (l.294-367): the rows of the lots and the FUTURE TOTAL
\* row; a total quantity of 0 (l.309) or a quantity of 0 (l.337) raises
\* ZeroDivisionError.  The FUTURE TOTAL amounts are shown with 2 places.
project_future_values(trade_lots, symbol) ==
    LET total_quantity == SumSeq([k \in DOMAIN trade_lots |-> trade_lots[k].Quantity])
        total_cost_basis == SumSeq([k \in DOMAIN trade_lots |-> trade_lots[k].OriginalCostBasis])
    IN  IF total_quantity = 0 \/ \E k \in DOMAIN trade_lots : trade_lots[k].Quantity = 0
        THEN [error |-> "ZeroDivisionError"]
        ELSE LET futures == [k \in DOMAIN trade_lots |->
                                future_interest_of(trade_lots[k].PurchaseDate,
                                                   trade_lots[k].OriginalCostBasis)]
                 total_future_interest == NumSum([k \in DOMAIN futures |-> futures[k].interest])
                 total_future_adjusted_cost ==
                     NumSum([k \in DOMAIN futures |-> futures[k].adjusted])
             IN  [error |-> "",
                  rows |-> [k \in DOMAIN trade_lots |-> FutureRow(trade_lots[k])],
                  total |-> [Symbol |-> symbol,
                             PurchaseDate |-> "FUTURE",
                             Quantity |-> total_quantity,
                             OriginalCostBasis |-> RoundDiv(total_cost_basis, total_quantity),
                             InterestAccrued |-> NumRound(total_future_interest),
                             InterestAdjustedTotalCost |-> NumRound(total_future_adjusted_cost),
                             BreakevenPrice |-> NumRoundDiv(total_future_adjusted_cost,
                                                            total_quantity)]]

\* l.503-512: the sale price of a lot row, rounded to 4 places, shown with 2
FormatPrice(row) == [row EXCEPT !.BreakevenPrice = RoundDiv(@, 100)]

\* l.440-533: the TOTAL row, the SPY column, the projection and the report
\* file.  The rows compare_against_benchmark adds to the file are left out.
MainReport ==
    /\ main_pc = "totals"
    /\ \E resp \in BulkResponses :
          LET total == TotalRow(results)
              spy == get_spy_performance(benchmark_trades, resp)
          IN  IF total.error # ""
              THEN /\ main_pc' = "crashed"
                   /\ main_error' = total.error
                   /\ UNCHANGED <<results, total_row, future_rows, future_total_row,
                                  output_file>>
              ELSE IF spy.error # ""
              THEN /\ main_pc' = "crashed"
                   /\ main_error' = spy.error
                   /\ total_row' = <<total.row>>
                   /\ UNCHANGED <<results, future_rows, future_total_row, output_file>>
              ELSE LET rows == [k \in DOMAIN results |->
                                   WithVsSpy(results[k], spy.spy_returns)]
                       future == project_future_values(rows, MainSymbol)
                   IN  /\ results' = rows
                       /\ total_row' = <<total.row>>
                       /\ IF future.error # ""
                          THEN /\ main_pc' = "crashed"
                               /\ main_error' = future.error
                               /\ UNCHANGED <<future_rows, future_total_row, output_file>>
                          ELSE /\ main_pc' = "saved"
                               /\ future_rows' = future.rows
                               /\ future_total_row' = <<future.total>>
                               /\ output_file' =
                                      <<[lots |-> [k \in DOMAIN rows |-> FormatPrice(rows[k])],
                                         total |-> total.row,
                                         future |-> [k \in DOMAIN future.rows |->
                                                        FormatPrice(future.rows[k])],
                                         future_total |-> future.total]>>
                               /\ UNCHANGED main_error
    /\ UNCHANGED <<lines_read, benchmark_trades, main_args, main_message, line, lot_lines>>
    /\ UNCHANGED interestVars
    /\ UNCHANGED exceptMain

NextMain ==
    \/ MainStart
    \/ MainReadLine
    \/ MainEndOfFile
    \/ MainReport

----------------------------------------------------------------------------
(* ind_spy.py: analyze_sp500 and calculate_growth.  Quotes carry no dividend  *)
(* and a positive close; the columns Security and GICS Sector, copied from    *)
(* the list to the row, are left out.                                         *)

AnalyzeQuotes == [date : 0..MaxBulkDate, close : 1..(MaxBulkPrice + 1)]
AnalyzeSeries == {<<>>} \cup {<<q>> : q \in AnalyzeQuotes}
                     \cup {<<q, r>> : <<q, r>> \in {x \in AnalyzeQuotes \X AnalyzeQuotes :
                                                        x[1].date < x[2].date}}
AnalyzeResponses == {[raised |-> FALSE, data |-> q] : q \in AnalyzeSeries}
                        \cup {[raised |-> TRUE, data |-> <<>>]}

\* get_valid_date(hist, target_date, prefer): the quotes it may return
ValidAfter(hist, target_date) == SelectSeq(hist, LAMBDA e : e.date >= target_date)
ValidBefore(hist, target_date) == SelectSeq(hist, LAMBDA e : e.date <= target_date)

None == <<>>

\* calculate_growth: <<the row>>, or None
calculate_growth(symbol, start, end, investment_amount, resp) ==
    IF resp.raised \/ resp.data = <<>> THEN None
    ELSE LET after == ValidAfter(resp.data, start)
             before == ValidBefore(resp.data, end)
         IN  IF after = <<>> \/ before = <<>> THEN None
             ELSE LET actual_start == after[1]
                      actual_end == before[Len(before)]
                      start_price == actual_start.close
                      end_price == actual_end.close
                      nominal_growth == Frac((end_price - start_price) * 100, start_price)
                      final_value == FracMulInt(Frac(investment_amount, start_price),
                                                end_price)
                      dividend_growth ==
                          FracMulInt(FracDivInt(FracSubInt(final_value, investment_amount),
                                                investment_amount), 100)
                  IN  <<[Symbol |-> symbol,
                         StartDate |-> actual_start.date,
                         EndDate |-> actual_end.date,
                         Duration |-> actual_end.date - actual_start.date,
                         StartPrice |-> start_price,
                         EndPrice |-> end_price,
                         FinalValue |-> Round2(final_value),
                         NominalGrowth |-> Round2(FracMulInt(nominal_growth, 100)),
                         DividendGrowth |-> Round2(FracMulInt(dividend_growth, 100))]>>

ErrFetch == "No data or price fetch failed"

AnalyzeIdle ==
    /\ an_start_date = 0
    /\ an_end_date = 0
    /\ an_idx = 1
    /\ an_results = <<>>
    /\ an_failed = <<>>
    /\ an_saved_failed = <<>>
    /\ an_pc = "idle"
    /\ an_report = <<>>

\* l.95-110: one row of df_info
AnalyzeRow ==
    /\ an_pc = "loop"
    /\ \E resp \in AnalyzeResponses :
          LET symbol == YfSymbol(symbols[an_idx])
              result == calculate_growth(symbol, an_start_date, an_end_date, AmountStep, resp)
          IN  IF result # None
              THEN /\ an_results' = an_results \o result
                   /\ UNCHANGED an_failed
              ELSE /\ an_failed' = Append(an_failed, [Symbol |-> symbol, Reason |-> ErrFetch])
                   /\ UNCHANGED an_results
    /\ an_idx' = an_idx + 1
    /\ an_pc' = IF an_idx = Len(symbols) THEN "save" ELSE "loop"
    /\ UNCHANGED <<an_start_date, an_end_date, an_saved_failed, an_report>>
    /\ UNCHANGED exceptAnalyze

\* l.112-116: the file of the failed fetches, written when there is one
AnalyzeSave ==
    /\ an_pc = "save"
    /\ an_saved_failed' = an_failed
    /\ an_pc' = "done"
    /\ UNCHANGED <<an_start_date, an_end_date, an_idx, an_results, an_failed, an_report>>
    /\ UNCHANGED exceptAnalyze

\* df.sort_values(by='Dividend Reinvested % Growth (Num)', ascending=False)
RECURSIVE InsertByGrowth(_, _)
InsertByGrowth(sorted, row) ==
    IF sorted = <<>> THEN <<row>>
    ELSE IF Head(sorted).DividendGrowth >= row.DividendGrowth
         THEN <<Head(sorted)>> \o InsertByGrowth(Tail(sorted), row)
         ELSE <<row>> \o sorted

RECURSIVE SortByGrowth(_)
SortByGrowth(rows) ==
    IF rows = <<>> THEN <<>>
    ELSE InsertByGrowth(SortByGrowth(SubSeq(rows, 1, Len(rows) - 1)), rows[Len(rows)])

\* ind_spy.py l.155-173: the rows sorted and saved; a frame without rows has
\* no column to sort by and the script ends with KeyError
AnalyzeReport ==
    /\ an_pc = "done"
    /\ IF an_results = <<>>
       THEN /\ an_pc' = "crashed"
            /\ UNCHANGED an_report
       ELSE /\ an_pc' = "reported"
            /\ an_report' = SortByGrowth(an_results)
    /\ UNCHANGED <<an_start_date, an_end_date, an_idx, an_results, an_failed,
                   an_saved_failed>>
    /\ UNCHANGED exceptAnalyze

NextAnalyze ==
    \/ AnalyzeRow
    \/ AnalyzeSave
    \/ AnalyzeReport

----------------------------------------------------------------------------
(* schwab-trade_processor.py: the trade processor *)

\* The text of a run is a sequence of lines, a line a sequence of
\* white-space-separated tokens, a blank line the empty sequence.
Token(t, v) == [t |-> t, v |-> v]
Blank == <<>>
Filler == <<Token("word", 0)>>

\* The lines of one trade confirmation; amounts in cents, P = TradeStep.
DateActionLines ==
    {<<Token("date", d), Token("Buy", 0)>> : d \in 0..MaxTradeDate}
        \cup {<<Token("date", 0), Token("Sell", 0)>>}
SymbolLines == {<<Token("symbol", k)>> : k \in 1..2}
QuantityLines == {<<Token("int", n)>> : n \in {0, 1, 3}}
PriceTotalLines == {<<Token("money", TradeStep), Token("money", -TradeStep)>>,
                    <<Token("money", 4 * TradeStep), Token("money", TradeStep)>>}

\* One block: its six lines, the 2nd and the 4th being sep
Blocks(sep) == {<<da, sep, sy, sep, qt, pt>> : da \in DateActionLines, sy \in SymbolLines,
                                                qt \in QuantityLines, pt \in PriceTotalLines}

RECURSIVE Concat(_)
Concat(qq) == IF qq = <<>> THEN <<>> ELSE Head(qq) \o Concat(Tail(qq))

\* The texts given to a run: 1..MaxBlocks blocks whose 2nd and 4th lines are
\* all blank or all some other text
Contents ==
    UNION {{Concat(bs) : bs \in {q \in SeqsUpTo(Blocks(sep), MaxBlocks) : q # <<>>}}
              : sep \in {Blank, Filler}}

\* l.16: "Buy" in lines[i] or "Sell" in lines[i]
HasAction(ln) == \E k \in DOMAIN ln : ln[k].t \in {"Buy", "Sell"}

\* l.30-31: float(text without $ and ,), in cents; <<>> for ValueError
FloatOf(tok) ==
    IF tok.t = "money" THEN <<tok.v>>
    ELSE IF tok.t = "int" THEN <<100 * tok.v>>
    ELSE <<>>

\* l.15-35: the loop from index i on (the indices count from 1 here)
RECURSIVE ParseTrades(_, _, _)
ParseTrades(lines, i, acc) ==
    IF i > Len(lines) THEN [error |-> "", trades |-> acc]
    ELSE IF ~HasAction(lines[i]) THEN ParseTrades(lines, i + 1, acc)
    ELSE IF Len(lines[i]) < 2 THEN [error |-> "IndexError", trades |-> acc]
    ELSE IF i + 2 > Len(lines) THEN [error |-> "IndexError", trades |-> acc]
    ELSE IF i + 4 > Len(lines) THEN [error |-> "IndexError", trades |-> acc]
    ELSE IF ~(Len(lines[i + 4]) = 1 /\ lines[i + 4][1].t = "int")
         THEN [error |-> "ValueError", trades |-> acc]
    ELSE IF i + 5 > Len(lines) THEN [error |-> "IndexError", trades |-> acc]
    ELSE LET price_total_parts == lines[i + 5]
             price == FloatOf(price_total_parts[1])
             total == FloatOf(price_total_parts[Len(price_total_parts)])
         IN  IF price = <<>> \/ total = <<>> THEN [error |-> "ValueError", trades |-> acc]
             ELSE ParseTrades(lines, i + 6,
                              Append(acc, [TradeDate |-> lines[i][1],
                                           Action |-> lines[i][2],
                                           Symbol |-> lines[i + 2],
                                           Quantity |-> lines[i + 4][1].v,
                                           Price |-> price[1],
                                           Total |-> total[1],
                                           Commission |-> 0]))

\* l.10-36: the blank lines are dropped first (l.11)
parse_multiple_trades(text) ==
    ParseTrades(SelectSeq(text, LAMBDA ln : ln # Blank), 1, <<>>)

\* l.82-89: the lines typed before the first blank one
RECURSIVE TypedLines(_)
TypedLines(text) ==
    IF text = <<>> \/ Head(text) = Blank THEN <<>>
    ELSE <<Head(text)>> \o TypedLines(Tail(text))

\* A faulty variant: a zero quantity answered with a price of 0.
calculate_breakeven_guarded(total, interest, quantity) ==
    IF quantity = 0 THEN [error |-> "", value |-> 0]
    ELSE [error |-> "", value |-> NumRoundDiv(NumAddInt(interest, Abs(total)), quantity)]

\* l.45-46: round((abs(total) + interest) / quantity, 2), in cents
calculate_breakeven(total, interest, quantity) ==
    IF quantity = 0 THEN [error |-> "ZeroDivisionError", value |-> 0]
    ELSE [error |-> "", value |-> NumRoundDiv(NumAddInt(interest, Abs(total)), quantity)]

\* l.111-112, l.133-135: the breakeven of one trade; strptime raises
\* ValueError on a text that is no date
LotBreakeven(t) ==
    IF t.TradeDate.t # "date" THEN [error |-> "ValueError", value |-> 0]
    ELSE calculate_breakeven(t.Total, calculate_interest(Abs(t.Total), t.TradeDate.v),
                             t.Quantity)

\* l.109-114: the rows appended to trades.csv, up to the trade that raises
RECURSIVE Breakdown(_, _)
Breakdown(trs, rows) ==
    IF trs = <<>> THEN [error |-> "", rows |-> rows]
    ELSE IF LotBreakeven(Head(trs)).error # ""
         THEN [error |-> LotBreakeven(Head(trs)).error, rows |-> Append(rows, Head(trs))]
    ELSE Breakdown(Tail(trs), Append(rows, Head(trs)))

\* l.117-119: the symbols in the order of their first trade
RECURSIVE GroupedSymbols(_, _)
GroupedSymbols(trs, seen) ==
    IF trs = <<>> THEN seen
    ELSE IF \E k \in DOMAIN seen : seen[k] = Head(trs).Symbol
         THEN GroupedSymbols(Tail(trs), seen)
    ELSE GroupedSymbols(Tail(trs), Append(seen, Head(trs).Symbol))

\* max() of a non-empty sequence of numbers
MaxOf(q) == CHOOSE m \in {q[k] : k \in DOMAIN q} : \A k \in DOMAIN q : q[k] <= m

Max2(a, b) == IF a >= b THEN a ELSE b

RiskMark == "warning"
NoRisk == "-"

\* A faulty variant: the lot compared with the lots before it only.
RiskOfLotAgainstEarlier(lot_breakevens, k, highest_price) ==
    IF lot_breakevens[k] > MaxOf(<<highest_price>> \o SubSeq(lot_breakevens, 1, k - 1))
    THEN RiskMark ELSE NoRisk

\* l.136-138: the risk of the k-th lot, lot_breakevens holding the lots up to it
RiskOfLot(lot_breakevens, k, highest_price) ==
    IF lot_breakevens[k] > Max2(highest_price, MaxOf(SubSeq(lot_breakevens, 1, k)))
    THEN RiskMark ELSE NoRisk

\* l.123-148: the summary of one symbol
SymbolSummary(symbol, trs) ==
    LET lots == SelectSeq(trs, LAMBDA t : t.Symbol = symbol)
        highest_price == MaxOf([k \in DOMAIN lots |-> lots[k].Price])
        lot_breakevens == [k \in DOMAIN lots |-> LotBreakeven(lots[k]).value]
    IN  [Symbol |-> symbol,
         TotalQty |-> SumSeq([k \in DOMAIN lots |-> lots[k].Quantity]),
         HighestPrice |-> highest_price,
         FinalBreakeven |-> Max2(MaxOf(lot_breakevens), highest_price),
         lot_flags |-> [k \in DOMAIN lots |->
                           [date |-> lots[k].TradeDate,
                            price |-> lots[k].Price,
                            quantity |-> lots[k].Quantity,
                            breakeven |-> lot_breakevens[k],
                            risk |-> RiskOfLot(lot_breakevens, k, highest_price)]]]

ErrNoInput == "You must provide either -i or -c."

TradeIdle ==
    /\ tp_pc = "idle"
    /\ tp_args = [i |-> "", c |-> FALSE]
    /\ content = <<>>
    /\ tp_trades = <<>>
    /\ tp_error = ""
    /\ tp_message = ""
    /\ trades_csv = <<>>
    /\ tp_exports = <<>>

\* l.76-92: the text of the run
TradeStart ==
    /\ tp_pc = "start"
    /\ IF tp_args.i = "missing"
       THEN /\ tp_pc' = "crashed"
            /\ tp_error' = "FileNotFoundError"
            /\ UNCHANGED <<content, tp_message>>
       ELSE IF tp_args.i # ""
       THEN /\ tp_pc' = "parse"
            /\ UNCHANGED <<content, tp_error, tp_message>>
       ELSE IF tp_args.c
       THEN /\ tp_pc' = "parse"
            /\ content' = TypedLines(content)
            /\ UNCHANGED <<tp_error, tp_message>>
       ELSE /\ tp_pc' = "returned"
            /\ tp_message' = ErrNoInput
            /\ UNCHANGED <<content, tp_error>>
    /\ UNCHANGED <<tp_args, tp_trades, trades_csv, tp_exports>>
    /\ UNCHANGED exceptTrade

\* l.94: trades = parse_multiple_trades(content)
TradeParse ==
    /\ tp_pc = "parse"
    /\ LET parsed == parse_multiple_trades(content)
       IN  IF parsed.error # ""
           THEN /\ tp_pc' = "crashed"
                /\ tp_error' = parsed.error
                /\ UNCHANGED tp_trades
           ELSE /\ tp_pc' = "breakdown"
                /\ tp_trades' = parsed.trades
                /\ UNCHANGED tp_error
    /\ UNCHANGED <<tp_args, content, tp_message, trades_csv, tp_exports>>
    /\ UNCHANGED exceptTrade

\* l.96-114: trades.csv and the breakdown
TradeBreakdown ==
    /\ tp_pc = "breakdown"
    /\ LET written == Breakdown(tp_trades, <<>>)
       IN  /\ trades_csv' = written.rows
           /\ tp_error' = written.error
           /\ tp_pc' = IF written.error # "" THEN "crashed" ELSE "summary"
    /\ UNCHANGED <<tp_args, content, tp_trades, tp_message, tp_exports>>
    /\ UNCHANGED exceptTrade

\* l.116-169: the summary of every symbol and its file
TradeSummary ==
    /\ tp_pc = "summary"
    /\ LET grouped == GroupedSymbols(tp_trades, <<>>)
       IN  tp_exports' = [k \in DOMAIN grouped |-> SymbolSummary(grouped[k], tp_trades)]
    /\ tp_pc' = "done"
    /\ UNCHANGED <<tp_args, content, tp_trades, tp_error, tp_message, trades_csv>>
    /\ UNCHANGED exceptTrade

NextTrade ==
    \/ TradeStart
    \/ TradeParse
    \/ TradeBreakdown
    \/ TradeSummary

----------------------------------------------------------------------------
(* portfolio-compare.py: the start of calculate_investment_performance *)

PortfolioSymbols == {"AAPL"}

\* pd.to_datetime(.., errors='coerce') of a date that does not parse
NaT == NoDate

\* A cell of the column 'Amount Invested': a number of cents, or text that
\* float() rejects
AmountTexts == {[kind |-> "number", val |-> a] : a \in Amounts}
                   \cup {[kind |-> "junk", val |-> 0]}

InputRows == [Symbol : PortfolioSymbols, DateInvested : {NaT} \cup 0..MaxRowDate,
              AmountInvested : AmountTexts]

\* The input files: df_input
PortfolioInputs == SeqsUpTo(InputRows, MaxRows)

EndDateTexts == {[kind |-> "date", val |-> d] : d \in Dates}
                    \cup {[kind |-> "junk", val |-> 0], [kind |-> "empty", val |-> 0]}

ErrEndDate == "Invalid date format. Use YYYY-MM-DD."

PortfolioIdle ==
    /\ pf_pc = "idle"
    /\ pf_args = [end_text |-> [kind |-> "empty", val |-> 0], file_exists |-> FALSE]
    /\ pf_spy_days = {}
    /\ pf_spy_raises = {}
    /\ pf_target = 0
    /\ pf_end_date = NoDate
    /\ pf_message = ""
    /\ pf_error = ""
    /\ pf_input = <<>>
    /\ pf_row = 1
    /\ pf_results = <<>>
    /\ pf_total_invested = 0
    /\ pf_total_value = <<0, 1>>
    /\ pf_total_spy_value = <<0, 1>>
    /\ pf_spy_data = <<>>
    /\ pf_outcomes = <<>>
    /\ pf_output = <<>>

\* l.65-74: the end date typed at the prompt
PortfolioEndDate ==
    /\ pf_pc = "start"
    /\ IF pf_args.end_text.kind = "junk"
       THEN /\ pf_pc' = "returned"
            /\ pf_message' = ErrEndDate
            /\ UNCHANGED pf_target
       ELSE /\ pf_pc' = "last_trading_day"
            /\ pf_target' = IF pf_args.end_text.kind = "date" THEN pf_args.end_text.val
                            ELSE TODAY
            /\ UNCHANGED pf_message
    /\ UNCHANGED <<pf_args, pf_spy_days, pf_spy_raises, pf_end_date, pf_error>>
    /\ UNCHANGED performanceVars
    /\ UNCHANGED exceptPortfolio

\* datetime.min, the earliest value of a datetime: the calendar of the model
\* starts MaxBack days before day 0
MinDay == -MaxBack

ErrProvider == "Exception"
ErrOverflow == "OverflowError"

DayBeforeSkippingOne(target_date) ==
    IF target_date - 2 < MinDay
    THEN [error |-> ErrOverflow, value |-> target_date]
    ELSE [error |-> "", value |-> target_date - 2]

\* l.16: target_date -= timedelta(days=1), which raises OverflowError
\* ("date value out of range") below datetime.min
DayBefore(target_date) ==
    IF target_date - 1 < MinDay
    THEN [error |-> ErrOverflow, value |-> target_date]
    ELSE [error |-> "", value |-> target_date - 1]

\* l.9-13: yf.download("SPY", start=target_date, end=target_date + 1 day)
SpyDownload(target_date) ==
    [raised |-> target_date \in pf_spy_raises,
     data |-> IF target_date \in pf_spy_days THEN <<target_date>> ELSE <<>>]

\* get_last_trading_day_before (l.7-16): one turn of its loop.  Nothing
\* catches an exception of the lookup or of the subtraction.
PortfolioLastTradingDay ==
    /\ pf_pc = "last_trading_day"
    /\ LET resp == SpyDownload(pf_target)
           back == DayBefore(pf_target)
       IN  IF resp.raised
           THEN /\ pf_pc' = "crashed"
                /\ pf_error' = ErrProvider
                /\ UNCHANGED <<pf_target, pf_end_date>>
           ELSE IF resp.data # <<>>
           THEN /\ pf_end_date' = resp.data[Len(resp.data)]
                /\ pf_pc' = "read"
                /\ UNCHANGED <<pf_target, pf_error>>
           ELSE IF back.error # ""
           THEN /\ pf_pc' = "crashed"
                /\ pf_error' = back.error
                /\ UNCHANGED <<pf_target, pf_end_date>>
           ELSE /\ pf_target' = back.value
                /\ UNCHANGED <<pf_end_date, pf_pc, pf_error>>
    /\ UNCHANGED <<pf_args, pf_spy_days, pf_spy_raises, pf_message>>
    /\ UNCHANGED performanceVars
    /\ UNCHANGED exceptPortfolio

\* l.78-84: pd.read_csv(input_csv_path), the dates coerced, the totals at 0
PortfolioReadCsv ==
    /\ pf_pc = "read"
    /\ IF pf_args.file_exists
       THEN /\ pf_pc' = "loaded"
            /\ pf_input' \in PortfolioInputs
            /\ UNCHANGED pf_error
       ELSE /\ pf_pc' = "crashed"
            /\ pf_error' = "FileNotFoundError"
            /\ UNCHANGED pf_input
    /\ UNCHANGED <<pf_args, pf_spy_days, pf_spy_raises, pf_target, pf_end_date, pf_message>>
    /\ UNCHANGED <<pf_row, pf_results, pf_total_invested, pf_total_value,
                   pf_total_spy_value, pf_spy_data, pf_outcomes, pf_output>>
    /\ UNCHANGED exceptPortfolio

NextPortfolio ==
    \/ PortfolioEndDate
    \/ PortfolioLastTradingDay
    \/ PortfolioReadCsv

----------------------------------------------------------------------------
(* portfolio-compare.py: the rows and the summary of                       *)
(* calculate_investment_performance                                        *)

\* A cell of the column 'Adj Close': <<price>>, or <<>> for NaN
AdjCloses == {<<>>} \cup {<<p>> : p \in 0..MaxAdjClose}

\* What yf.download gives for the 30 days up to the date asked for
PriceResponses == {[raised |-> FALSE, data |-> q] : q \in SeqsUpTo(AdjCloses, MaxQuotes)}
                      \cup {[raised |-> TRUE, data |-> <<>>]}

FracAdd(x, y) == Frac(x[1] * y[2] + y[1] * x[2], x[2] * y[2])

\* get_price_on_or_before without cached data (l.32-46): <<the price>>, or None
get_price_on_or_before(resp) ==
    IF resp.raised \/ resp.data = <<>> THEN None
    ELSE LET adj_close == SelectSeq(resp.data, LAMBDA c : c # <<>>)
         IN  IF adj_close = <<>> THEN None ELSE adj_close[Len(adj_close)]

\* The close the provider holds for SPY on a day
SpyClose(day) == day + 1

\* l.87-95: the SPY quotes from the first date invested to the end date,
\* None when there is no such date or the download raises
SpyData(input, end_date, raised) ==
    LET dated == {input[k].DateInvested : k \in DOMAIN input} \ {NaT}
    IN  IF raised \/ dated = {} THEN None
        ELSE LET first == CHOOSE d \in dated : \A e \in dated : d <= e
                 days == {d \in pf_spy_days : first <= d /\ d <= end_date}
             IN  <<[d \in days |-> SpyClose(d)]>>

\* get_price_on_or_before with cached data (l.21-29)
get_price_cached(cached_data, target_date) ==
    LET data == cached_data[1]
        filtered == {d \in DOMAIN data : d <= target_date}
    IN  IF filtered = {} THEN None
        ELSE <<data[CHOOSE d \in filtered : \A e \in filtered : e <= d]>>

CountedWithResultOnly(outcome) == outcome = "result"

\* l.100-104: the rows whose amount enters total_invested, which are the
\* rows with a valid date
Counted(outcome) == outcome # "undated"

\* l.98-136: one row of the first loop, its amount a number.  outcome tells
\* how the row ended: "undated" (l.101), "no_start" (l.110), "no_end"
\* (l.117), "error" (an exception, l.135) or "result"; value is what l.121
\* adds to total_value.
PerformanceOfRow(row, end_date, start_resp, end_resp) ==
    LET amount_invested == row.AmountInvested.val
        start_price == get_price_on_or_before(start_resp)
        end_price == get_price_on_or_before(end_resp)
        none(o) == [outcome |-> o, rows |-> <<>>, value |-> <<0, 1>>]
    IN  IF row.DateInvested = NaT THEN none("undated")
        ELSE IF start_price = None THEN none("no_start")
        ELSE IF start_price[1] = 0 THEN none("error")
        ELSE IF end_price = None THEN none("no_end")
        ELSE IF amount_invested = 0 THEN none("error")
        ELSE LET shares_bought == Frac(amount_invested, start_price[1])
                 current_value == FracMulInt(shares_bought, end_price[1])
                 percent_growth ==
                     FracMulInt(FracDivInt(FracSubInt(current_value, amount_invested),
                                           amount_invested), 100)
             IN  [outcome |-> "result",
                  rows |-> <<[Symbol |-> row.Symbol,
                              InvestmentDate |-> row.DateInvested,
                              StartPrice |-> start_price[1],
                              SharesBought |-> RoundHalfEven(FracMulInt(shares_bought, 100)),
                              EndDate |-> end_date,
                              EndPrice |-> end_price[1],
                              InitialInvestment |-> amount_invested,
                              CurrentValue |-> current_value,
                              Growth |-> percent_growth]>>,
                  value |-> current_value]

\* l.147-155: what one row adds to total_spy_value
SpyValueOfRow(row, start_price, end_price) ==
    IF start_price = None \/ end_price = None THEN <<0, 1>>
    ELSE IF start_price[1] = 0 THEN <<0, 1>>
    ELSE FracMulInt(Frac(row.AmountInvested.val, start_price[1]), end_price[1])

\* l.160-161: the growth in percent, 0 when nothing was invested
GrowthOf(value, invested) ==
    IF invested = 0 THEN <<0, 1>>
    ELSE FracMulInt(FracDivInt(FracSubInt(value, invested), invested), 100)

\* safe_format_currency (l.54-57) of an amount in cents: '' for None, else
\* the amount rounded to the cent
FormatCurrency(x) == IF x = None THEN None ELSE <<Round2(x)>>

\* safe_format_percent (l.59-62): the percentage rounded to 1/100
FormatPercent(x) == <<Round2(FracMulInt(x, 100))>>

\* l.203-206: a row as df_display holds it
DisplayRow(symbol, initial_investment, current_value, growth) ==
    [Symbol |-> symbol,
     InitialInvestment |-> FormatCurrency(initial_investment),
     CurrentValue |-> FormatCurrency(current_value),
     Growth |-> FormatPercent(growth)]

\* l.164-198: summary_rows
SummaryRows(total_invested, total_value, total_spy_value) ==
    LET total_growth == GrowthOf(total_value, total_invested)
        spy_growth == GrowthOf(total_spy_value, total_invested)
        vs_spy == Frac(total_growth[1] * spy_growth[2] - spy_growth[1] * total_growth[2],
                       total_growth[2] * spy_growth[2])
    IN  <<DisplayRow("TOTAL", <<total_invested, 1>>, total_value, total_growth),
          DisplayRow("SPY Benchmark", <<total_invested, 1>>, total_spy_value, spy_growth),
          DisplayRow("Portfolio vs SPY", None, None, vs_spy)>>

\* l.86-95: the SPY data cached once; then the first loop, if there are rows
PortfolioCacheSpy ==
    /\ pf_pc = "loaded"
    /\ \E raised \in BOOLEAN : pf_spy_data' = SpyData(pf_input, pf_end_date, raised)
    /\ pf_pc' = IF pf_input = <<>> THEN "summary" ELSE "rows"
    /\ UNCHANGED <<pf_args, pf_spy_days, pf_spy_raises, pf_target, pf_end_date,
                   pf_message, pf_error>>
    /\ UNCHANGED <<pf_input, pf_row, pf_results, pf_total_invested, pf_total_value,
                   pf_total_spy_value, pf_outcomes, pf_output>>
    /\ UNCHANGED exceptPortfolio

\* l.97-137: one turn of the first loop.  float() of the amount (l.102) is
\* outside the try.
PortfolioRow ==
    /\ pf_pc = "rows"
    /\ LET row == pf_input[pf_row]
       IN  IF row.DateInvested # NaT /\ row.AmountInvested.kind = "junk"
           THEN /\ pf_pc' = "crashed"
                /\ pf_error' = "ValueError"
                /\ UNCHANGED <<pf_row, pf_results, pf_total_invested, pf_total_value,
                               pf_outcomes>>
           ELSE /\ \E start_resp \in PriceResponses, end_resp \in PriceResponses :
                      LET r == PerformanceOfRow(row, pf_end_date, start_resp, end_resp)
                      IN  /\ pf_total_invested' =
                                 IF Counted(r.outcome)
                                 THEN pf_total_invested + row.AmountInvested.val
                                 ELSE pf_total_invested
                          /\ pf_total_value' = FracAdd(pf_total_value, r.value)
                          /\ pf_results' = pf_results \o r.rows
                          /\ pf_outcomes' = Append(pf_outcomes, r.outcome)
                /\ IF pf_row = Len(pf_input)
                   THEN pf_pc' = "spy_rows" /\ pf_row' = 1
                   ELSE pf_pc' = "rows" /\ pf_row' = pf_row + 1
                /\ UNCHANGED pf_error
    /\ UNCHANGED <<pf_args, pf_spy_days, pf_spy_raises, pf_target, pf_end_date, pf_message>>
    /\ UNCHANGED <<pf_input, pf_total_spy_value, pf_spy_data, pf_output>>
    /\ UNCHANGED exceptPortfolio

\* l.140-156: one turn of the second loop; without cached data the prices
\* are looked up on demand
PortfolioSpyRow ==
    /\ pf_pc = "spy_rows"
    /\ LET row == pf_input[pf_row]
       IN  IF row.DateInvested = NaT
           THEN UNCHANGED pf_total_spy_value
           ELSE IF pf_spy_data # None
           THEN pf_total_spy_value' =
                    FracAdd(pf_total_spy_value,
                            SpyValueOfRow(row,
                                          get_price_cached(pf_spy_data, row.DateInvested),
                                          get_price_cached(pf_spy_data, pf_end_date)))
           ELSE \E start_resp \in PriceResponses, end_resp \in PriceResponses :
                    pf_total_spy_value' =
                        FracAdd(pf_total_spy_value,
                                SpyValueOfRow(row, get_price_on_or_before(start_resp),
                                              get_price_on_or_before(end_resp)))
    /\ IF pf_row = Len(pf_input)
       THEN pf_pc' = "summary" /\ pf_row' = 1
       ELSE pf_pc' = "spy_rows" /\ pf_row' = pf_row + 1
    /\ UNCHANGED <<pf_args, pf_spy_days, pf_spy_raises, pf_target, pf_end_date,
                   pf_message, pf_error>>
    /\ UNCHANGED <<pf_input, pf_results, pf_total_invested, pf_total_value, pf_spy_data,
                   pf_outcomes, pf_output>>
    /\ UNCHANGED exceptPortfolio

\* l.158-214: the summary rows appended to the rows of the results, the
\* money and the percentages formatted, the file written
PortfolioSave ==
    /\ pf_pc = "summary"
    /\ pf_output' =
           [k \in DOMAIN pf_results |->
               DisplayRow(pf_results[k].Symbol, <<pf_results[k].InitialInvestment, 1>>,
                          pf_results[k].CurrentValue, pf_results[k].Growth)]
               \o SummaryRows(pf_total_invested, pf_total_value, pf_total_spy_value)
    /\ pf_pc' = "saved"
    /\ UNCHANGED <<pf_args, pf_spy_days, pf_spy_raises, pf_target, pf_end_date,
                   pf_message, pf_error>>
    /\ UNCHANGED <<pf_input, pf_row, pf_results, pf_total_invested, pf_total_value,
                   pf_total_spy_value, pf_spy_data, pf_outcomes>>
    /\ UNCHANGED exceptPortfolio

NextPerformance ==
    \/ NextPortfolio
    \/ PortfolioCacheSpy
    \/ PortfolioRow
    \/ PortfolioSpyRow
    \/ PortfolioSave

\* Neither tool is running
ToolsIdle == TradeIdle /\ PortfolioIdle

----------------------------------------------------------------------------
(* The interest functions applied to drawn inputs *)

NoRet == [interest |-> NumInt(0), adjusted |-> NumInt(0)]

InitInterest ==
    /\ TODAY \in Dates
    /\ future_disposal_date \in Dates
    /\ principal \in Principals
    /\ start_date \in Dates
    /\ int_fn = "none"
    /\ int_ret = NoRet
    /\ EvalIdle
    /\ trades = <<>>
    /\ BulkIdle
    /\ BenchIdle
    /\ MainIdle
    /\ AnalyzeIdle
    /\ ToolsIdle

ApplyComputeInterestAdjustedCost ==
    /\ int_fn = "none"
    /\ int_fn' = "compute_interest_adjusted_cost"
    /\ int_ret' = compute_interest_adjusted_cost(start_date, principal)
    /\ UNCHANGED <<TODAY, future_disposal_date, principal, start_date, exceptInterest>>

ApplyProjectFutureValues ==
    /\ int_fn = "none"
    /\ int_fn' = "project_future_values"
    /\ int_ret' = future_interest_of(start_date, principal)
    /\ UNCHANGED <<TODAY, future_disposal_date, principal, start_date, exceptInterest>>

ApplyCalculateInterest ==
    /\ int_fn = "none"
    /\ int_fn' = "calculate_interest"
    /\ int_ret' = [interest |-> calculate_interest(principal, start_date),
                   adjusted |-> NumAddInt(calculate_interest(principal, start_date), principal)]
    /\ UNCHANGED <<TODAY, future_disposal_date, principal, start_date, exceptInterest>>

NextInterest ==
    \/ ApplyComputeInterestAdjustedCost
    \/ ApplyProjectFutureValues
    \/ ApplyCalculateInterest

InterestIdle ==
    /\ TODAY = 0
    /\ future_disposal_date = 0
    /\ principal = 0
    /\ start_date = 0
    /\ int_fn = "none"
    /\ int_ret = NoRet

InitEval ==
    /\ EvalIdle
    /\ InterestIdle
    /\ trades = <<>>
    /\ BulkIdle
    /\ BenchIdle
    /\ MainIdle
    /\ AnalyzeIdle
    /\ ToolsIdle

InitBench ==
    /\ InterestIdle
    /\ EvalIdle
    /\ BulkIdle
    /\ MainIdle
    /\ AnalyzeIdle
    /\ ToolsIdle
    /\ trades \in BenchTradeLists
    /\ bench_symbols \in BenchmarkSymbolLists
    /\ bench_i = 1
    /\ bench_j = 1
    /\ bench_results = <<>>
    /\ bench_pc = "loop"

InitMain ==
    /\ TODAY \in Dates
    /\ future_disposal_date = 0
    /\ principal = 0
    /\ start_date = 0
    /\ int_fn = "none"
    /\ int_ret = NoRet
    /\ EvalIdle
    /\ trades = <<>>
    /\ BulkIdle
    /\ BenchIdle
    /\ main_pc = "start"
    /\ main_error = ""
    /\ lines_read = 0
    /\ results = <<>>
    /\ benchmark_trades = <<>>
    /\ main_args \in [disposal : DisposalTexts, file_exists : BOOLEAN]
    /\ main_message = ""
    /\ line = NoLine
    /\ lot_lines = 0
    /\ total_row = <<>>
    /\ future_rows = <<>>
    /\ future_total_row = <<>>
    /\ output_file = <<>>
    /\ AnalyzeIdle
    /\ ToolsIdle

InitAnalyze ==
    /\ InterestIdle
    /\ EvalIdle
    /\ trades = <<>>
    /\ BulkIdle
    /\ BenchIdle
    /\ MainIdle
    /\ ToolsIdle
    /\ an_start_date \in 0..MaxBulkDate
    /\ an_end_date \in 0..MaxBulkDate
    /\ an_idx = 1
    /\ an_results = <<>>
    /\ an_failed = <<>>
    /\ an_saved_failed = <<>>
    /\ an_pc = "loop"
    /\ an_report = <<>>

InitBulk ==
    /\ InterestIdle
    /\ EvalIdle
    /\ BenchIdle
    /\ MainIdle
    /\ AnalyzeIdle
    /\ ToolsIdle
    /\ list_found \in BOOLEAN
    /\ trades \in BulkTradeLists
    /\ market \in [Tickers -> BulkSeries]
    /\ flaky \in SUBSET Tickers
    /\ lookups = [t \in Tickers |-> 0]
    /\ sym_i = 1
    /\ trade_j = 1
    /\ all_results = <<>>
    /\ all_failures = <<>>
    /\ bulk_pc = "start"
    /\ saved_results = <<>>
    /\ saved_failures = <<>>
    /\ retry_submitted = [i \in DOMAIN symbols |-> 0]
    /\ retry_pc = "idle"
    /\ retry_in = <<>>
    /\ retry_pending = {}
    /\ retry_futures = <<>>
    /\ retry_results = <<>>
    /\ retry_failures = <<>>

InitRetry ==
    /\ InterestIdle
    /\ EvalIdle
    /\ BenchIdle
    /\ MainIdle
    /\ AnalyzeIdle
    /\ ToolsIdle
    /\ list_found = FALSE
    /\ trades \in BulkTradeLists
    /\ market \in [RetryTickers -> RetrySeries]
    /\ flaky \in {{}, {YfSymbol(RetrySymbols[1])}}
    /\ lookups = [t \in RetryTickers |-> 0]
    /\ sym_i = 1
    /\ trade_j = 1
    /\ all_results = <<>>
    /\ all_failures = <<>>
    /\ bulk_pc = "idle"
    /\ saved_results = <<>>
    /\ saved_failures = <<>>
    /\ retry_submitted = [i \in DOMAIN symbols |-> 0]
    /\ retry_pc = "start"
    /\ retry_in \in RetryInputs
    /\ retry_pending = {}
    /\ retry_futures = <<>>
    /\ retry_results = <<>>
    /\ retry_failures = <<>>

----------------------------------------------------------------------------
(* Claims about the interest functions (checked under SpecInterest) *)

DaysOfCall ==
    IF int_fn = "project_future_values" THEN future_disposal_date - start_date
    ELSE TODAY - start_date

\* principal * ((1 + rate/365)^days - 1), rate = 5%
DailyCompounded(p, days) == NumMulInt(NumAddInt(GrowthFactor(days), -1), p)

\* C1: every interest computation (compute_interest_adjusted_cost,
\* project_future_values, calculate_interest) yields
\* principal * ((1 + rate/365)^days - 1) and adjusted cost = principal + interest,
\* for every principal and every day count >= 0.
C1_InterestIsDailyCompounded ==
    (int_fn # "none" /\ DaysOfCall >= 0) =>
        /\ int_ret.interest = DailyCompounded(principal, DaysOfCall)
        /\ int_ret.adjusted = NumAddInt(int_ret.interest, principal)

\* C2: for principal >= 0 and days held >= 0 the interest-adjusted cost of
\* compute_interest_adjusted_cost is >= the principal, and equals it for 0 days.
C2_AdjustedCostAtLeastPrincipal ==
    (int_fn = "compute_interest_adjusted_cost" /\ principal >= 0 /\ TODAY - start_date >= 0) =>
        /\ NumGeInt(int_ret.adjusted, principal)
        /\ (TODAY - start_date = 0 => int_ret.adjusted = NumInt(principal))

\* C2 happens: a positive principal held for some days has grown.
C2_Witness ==
    /\ int_fn = "compute_interest_adjusted_cost"
    /\ principal > 0
    /\ TODAY - start_date > 0
    /\ NumGeInt(int_ret.adjusted, principal)
    /\ int_ret.adjusted # NumInt(principal)

----------------------------------------------------------------------------
(* Claims about the lot evaluators (checked under SpecEval) *)

\* The entries of the answered series on or after a date, as a set.
EntriesOnOrAfter(d) == {i \in DOMAIN ev_resp.data : ev_resp.data[i].date >= d}

\* The close of the earliest entry dated >= d, and of the most recent entry.
EarliestCloseOnOrAfter(d) ==
    LET i == CHOOSE i \in EntriesOnOrAfter(d) :
                 \A j \in EntriesOnOrAfter(d) : ev_resp.data[i].date <= ev_resp.data[j].date
    IN  ev_resp.data[i].close

LatestClose ==
    LET i == CHOOSE i \in DOMAIN ev_resp.data :
                 \A j \in DOMAIN ev_resp.data : ev_resp.data[j].date <= ev_resp.data[i].date
    IN  ev_resp.data[i].close

\* (A/P)*C and ((A/P)*C - A)/A*100 of a result row, from the answered series
RowExactValue(row) ==
    Frac(row.InvestmentAmount * CurrentPrice(ev_resp.data),
         PurchasePrice(ev_resp.data, row.PurchaseDate))

RowExactPercent(row) ==
    LET P == PurchasePrice(ev_resp.data, row.PurchaseDate)
        C == CurrentPrice(ev_resp.data)
        A == row.InvestmentAmount
    IN  Frac((A * C - A * P) * 100, P * A)

ResultRows == {ev_out.results[i] : i \in DOMAIN ev_out.results}
FailureRows == {ev_out.failures[i] : i \in DOMAIN ev_out.failures}

\* C3 as stated: the reported current_value equals (A/P)*C and the reported
\* percent_change equals (current_value - A)/A*100, exactly.
C3_ReportedValuesExact ==
    \A row \in ResultRows :
        /\ Frac(row.CurrentValue, 1) = RowExactValue(row)
        /\ Frac(row.PercentChange, 100) = RowExactPercent(row)

\* C3 as amended: the reported current_value is (A/P)*C rounded to 2 decimal
\* places and the reported percent_change is ((A/P)*C - A)/A*100 rounded to 2
\* decimal places.
C3_ReportedValuesRounded ==
    \A row \in ResultRows :
        /\ row.CurrentValue = RoundHalfEven(RowExactValue(row))
        /\ row.PercentChange = RoundHalfEven(FracMulInt(RowExactPercent(row), 100))

\* C3 happens: a row whose exact value is no whole number of cents.
C3_Witness ==
    \E row \in ResultRows :
        /\ RowExactValue(row)[2] # 1
        /\ FracMulInt(RowExactPercent(row), 100)[2] # 1

\* C4: the evaluator uses as purchase price the close of the earliest entry
\* dated >= purchase_date and as current price the close of the last entry:
\* every reported row is the one these two prices give.
C4_PurchaseAndCurrentPrice ==
    \A row \in ResultRows :
        LET P == EarliestCloseOnOrAfter(row.PurchaseDate)
            C == LatestClose
            A == row.InvestmentAmount
        IN  /\ P # 0
            /\ row.CurrentValue = RoundHalfEven(<<A * C, P>>)
            /\ row.PercentChange = RoundHalfEven(<<(C - P) * 10000, P>>)

\* C4 happens: a row from a series with an entry before the purchase date, the
\* purchase entry and a later one, all of different closes.
C4_Witness ==
    \E row \in ResultRows :
        /\ Len(ev_resp.data) = 3
        /\ ev_resp.data[2].date = row.PurchaseDate
        /\ ev_resp.data[1].close # ev_resp.data[2].close
        /\ ev_resp.data[3].close # ev_resp.data[2].close
        /\ ev_resp.data[3].close # ev_resp.data[1].close

\* C5: the evaluator returns a NoDataForSymbol failure for an empty series and a
\* NoPriceOnOrAfterPurchase failure for a non-empty series with no entry dated
\* >= purchase_date; either way a failure record and no result.
C5_NoDataAndNoPriceFailures ==
    (ev_fn # "none" /\ ~ev_resp.raised) =>
        /\ ev_resp.data = <<>> =>
              /\ ev_out.results = <<>>
              /\ ev_out.failures # <<>>
              /\ \A f \in FailureRows : f.Error \in {ErrNoData, ErrEmptyData}
        /\ ev_resp.data # <<>> =>
              \A k \in DOMAIN ev_trades :
                  EntriesOnOrAfter(ev_trades[k].PurchaseDate) = {} =>
                      /\ \E f \in FailureRows :
                            /\ f.Date = ev_trades[k].PurchaseDate
                            /\ f.Error = ErrNoPrice
                      /\ \A row \in ResultRows : row.PurchaseDate # ev_trades[k].PurchaseDate

----------------------------------------------------------------------------
(* Claims about the batch runs (checked under SpecBulk and SpecBatch) *)

CountRows(rows, symbol) == Cardinality({k \in DOMAIN rows : rows[k].Symbol = symbol})

\* The symbols with a failure record from the first pass.
FailedFirstPass == {i \in DOMAIN symbols : CountRows(all_failures, symbols[i]) > 0}

\* A retry runs process_sp500_symbol on the symbol; the provider, asked again,
\* answers with the series it holds.
FailsRetry(i) ==
    process_sp500_symbol(symbols[i], trades,
        [raised |-> FALSE, data |-> market[YfSymbol(symbols[i])]]).failures # <<>>

\* C6: of N symbols, with one lot, the final batch holds one failure for each
\* symbol that fails the first pass and the retry pass, and a result for each
\* other symbol (so K first-pass failures that all succeed on the retry leave 0
\* failures and N results).
C6_FinalBatchAfterRetry ==
    (bulk_pc = "done" /\ list_found /\ Len(trades) = 1) =>
        LET K == Cardinality({i \in FailedFirstPass : FailsRetry(i)})
        IN  /\ Len(saved_failures) = K
            /\ Len(saved_results) = Len(symbols) - K

\* C7: every symbol that failed in the first pass is submitted for retry exactly
\* once, and no other symbol is.
C7_FailedSymbolsRetriedOnce ==
    (bulk_pc = "done" /\ list_found) =>
        \A i \in DOMAIN symbols :
            retry_submitted[i] = IF i \in FailedFirstPass THEN 1 ELSE 0

\* C8: a failure for one symbol never aborts the batch: when
\* compare_sp500_performance is done every (symbol, lot) pair has been looked up
\* and has left a result or a failure, and the failure list is saved beside the
\* results; when analyze_sp500 is done every symbol has left a row or a failed
\* fetch, and the failed fetches are saved.
C8_FailureDoesNotAbortBatch ==
    /\ (bulk_pc = "done" /\ list_found) =>
           /\ \A i \in DOMAIN symbols :
                 /\ lookups[YfSymbol(symbols[i])] = Len(trades)
                 /\ CountRows(all_results, symbols[i]) + CountRows(all_failures, symbols[i])
                        = Len(trades)
                 /\ CountRows(saved_results, symbols[i]) = CountRows(all_results, symbols[i])
           /\ saved_failures = all_failures
    /\ an_pc = "done" =>
           /\ \A i \in DOMAIN symbols :
                 CountRows(an_results, YfSymbol(symbols[i]))
                     + CountRows(an_failed, YfSymbol(symbols[i])) = 1
           /\ an_saved_failed = an_failed

\* C8 happens: the first symbol failed and the last one was still evaluated.
C8_Witness ==
    /\ bulk_pc = "done"
    /\ CountRows(saved_failures, symbols[1]) > 0
    /\ CountRows(saved_results, symbols[Len(symbols)]) > 0
    /\ Len(symbols) > 1

----------------------------------------------------------------------------
(* Claims about the benchmark comparison (checked under SpecBench) *)

\* C9: every lookup or computation failure while comparing a lot against a
\* symbol is captured as a failure record: when compare_against_benchmark is
\* done, every (symbol, lot) pair has left a result or a failure record.
C9_EveryFailureRecorded ==
    bench_pc = "done" =>
        \A i \in DOMAIN bench_symbols :
            CountRows(bench_results, bench_symbols[i])
                + CountRows(benchmark_failures, bench_symbols[i]) = Len(trades)

----------------------------------------------------------------------------
(* Claims about the lots main reads (checked under SpecMain) *)

\* C10: every lot created by parsing an input line has quantity > 0,
\* cost_basis_total >= 0 and purchase_date <= the evaluation date.
C10_LotInvariant ==
    \A k \in DOMAIN results :
        /\ results[k].Quantity > 0
        /\ results[k].OriginalCostBasis >= 0
        /\ results[k].PurchaseDate <= TODAY
        /\ results[k].HoldingDuration >= 0


\* C11: while the lot file is read, every blank line and every recognized
\* header line is skipped without error and leaves no lot row, every other line
\* that is read without aborting the run adds exactly one lot row, holding that
\* line's date, quantity and cost basis, after the rows of the lines before it;
\* so the number of lot rows is the number of non-blank, non-header lines.
C11_OneLotPerLine ==
    /\ [](main_pc \in {"read", "totals", "saved"} => Len(results) = lot_lines)
    /\ [][MainReadLine =>
            IF line'.kind = "blank" \/ (line'.kind = "header" /\ ~line'.indent)
            THEN /\ results' = results
                 /\ lot_lines' = lot_lines
                 /\ main_pc' = "read"
                 /\ main_error' = ""
            ELSE /\ lot_lines' = lot_lines + 1
                 /\ main_pc' = "read" =>
                       /\ Len(results') = Len(results) + 1
                       /\ SubSeq(results', 1, Len(results)) = results
                       /\ results'[Len(results')].PurchaseDate = line'.date.val
                       /\ results'[Len(results')].Quantity = line'.qty.val
                       /\ results'[Len(results')].OriginalCostBasis = line'.cost.val]_vars

\* C11 happens: a lot line, then a header line, and the file ends with one lot.
C11_Witness ==
    /\ main_pc = "totals"
    /\ lines_read = 2
    /\ line.kind = "header"
    /\ Len(results) = 1
    /\ lot_lines = 1

\* C12: a malformed lot line (wrong column count, unparseable date, quantity
\* or cost basis) aborts the run with a printed message and no uncaught
\* exception, and leaves no lot row for that line.
C12_MalformedLineIsReported ==
    (lot_lines > 0 /\ line.kind = "data" /\ parse_line(line).error # "") =>
        /\ main_pc = "returned"
        /\ main_message # ""
        /\ main_error = ""
        /\ Len(results) = lot_lines - 1

----------------------------------------------------------------------------
(* Claims about the start of the tools (checked under SpecTools) *)

\* C13: in each tool, a missing input file or a malformed date argument or
\* answer makes the tool print an error and return normally, with no uncaught
\* exception and without writing any output file.
C13_BadInputIsReported ==
    /\ (main_pc \notin {"idle", "start"}
            /\ (main_args.disposal.kind = "junk" \/ ~main_args.file_exists)) =>
           /\ main_pc = "returned"
           /\ main_message # ""
           /\ main_error = ""
           /\ output_file = <<>>
    /\ (tp_pc \notin {"idle", "start"} /\ tp_args.i = "missing") =>
           /\ tp_pc = "returned"
           /\ tp_message # ""
           /\ tp_error = ""
           /\ trades_csv = <<>>
           /\ tp_exports = <<>>
    /\ (pf_pc \notin {"idle", "start"} /\ pf_args.end_text.kind = "junk") =>
           /\ pf_pc = "returned"
           /\ pf_message # ""
           /\ pf_error = ""
    /\ (pf_pc \notin {"idle", "start", "last_trading_day", "read"}
            /\ pf_args.end_text.kind # "junk" /\ ~pf_args.file_exists) =>
           /\ pf_pc = "returned"
           /\ pf_message # ""
           /\ pf_error = ""

----------------------------------------------------------------------------
(* Claims about the report of main (checked under SpecMain) *)

\* The sum of f[1] .. f[n]
RECURSIVE SumTo(_, _)
SumTo(f, n) == IF n = 0 THEN 0 ELSE SumTo(f, n - 1) + f[n]

LotQuantities == [k \in DOMAIN results |-> results[k].Quantity]
LotCostBases == [k \in DOMAIN results |-> results[k].OriginalCostBasis]
LotAdjustedCosts == [k \in DOMAIN results |-> results[k].InterestAdjustedTotalCost]

\* v is x / q rounded to the nearest unit, x and v counted in the same unit
NearestTo(v, x, q) == 2 * Abs(v * q - x) <= Abs(q)

\* C14 as stated: the TOTAL row holds the sum of the lot quantities, the sum of
\* the lot cost bases, and the sum of the lot interest-adjusted costs divided
\* by the sum of the lot quantities (shown in cents).
C14_TotalRowHoldsSums ==
    total_row # <<>> =>
        /\ total_row[1].Quantity = SumTo(LotQuantities, Len(results))
        /\ total_row[1].OriginalCostBasis = SumTo(LotCostBases, Len(results))
        /\ 200 * Abs(total_row[1].BreakevenPrice * total_row[1].Quantity
                        - SumTo(LotAdjustedCosts, Len(results)))
               <= 101 * Abs(total_row[1].Quantity)

\* C14 amended: the TOTAL row holds the sum of the lot quantities, the average
\* cost basis per share (the sum of the lot cost bases divided by the sum of
\* the quantities, to the cent), the sum of the lots' interest-adjusted costs,
\* and that sum divided by the sum of the quantities, rounded to 4 places and
\* shown with 2.
C14_TotalRow ==
    total_row # <<>> =>
        LET quantity == SumTo(LotQuantities, Len(results))
            adjusted == SumTo(LotAdjustedCosts, Len(results))
        IN  /\ total_row[1].Quantity = quantity
            /\ NearestTo(total_row[1].OriginalCostBasis,
                         SumTo(LotCostBases, Len(results)), quantity)
            /\ total_row[1].InterestAdjustedTotalCost = adjusted
            /\ \E p4 \in {100 * total_row[1].BreakevenPrice + d : d \in -50..50} :
                  NearestTo(p4, 100 * adjusted, quantity)

\* C14 happens: two lots of 1 and 3 shares, the report saved, the TOTAL row
\* holding the average cost per share and not the sum of the cost bases.
C14_Witness ==
    /\ main_pc = "saved"
    /\ Len(results) = 2
    /\ total_row[1].Quantity = 4
    /\ total_row[1].OriginalCostBasis # SumTo(LotCostBases, 2)
    /\ SumTo(LotCostBases, 2) > 0
    /\ output_file[1].total = total_row[1]

----------------------------------------------------------------------------
(* Claims about the saved reports of the batch runs (checked under SpecBatch) *)

\* How often row x stands in rows
TimesIn(rows, x) == Cardinality({k \in DOMAIN rows : rows[k] = x})

\* saved holds exactly the rows of collected
SameRows(saved, collected) ==
    /\ Len(saved) = Len(collected)
    /\ \A k \in DOMAIN collected : TimesIn(saved, collected[k]) = TimesIn(collected, collected[k])

\* C15: whatever order the results were collected in, the saved comparison
\* report is sorted by percent change, falling (each saved row's percent change
\* is >= that of the row after it), and holds exactly the collected results; so
\* for the report of compare_sp500_performance and for that of ind_spy.py.
C15_SavedReportSorted ==
    /\ bulk_pc = "done" =>
           /\ \A k \in 1..(Len(saved_results) - 1) :
                 saved_results[k].PercentChange >= saved_results[k + 1].PercentChange
           /\ SameRows(saved_results, all_results)
    /\ an_pc = "reported" =>
           /\ \A k \in 1..(Len(an_report) - 1) :
                 an_report[k].DividendGrowth >= an_report[k + 1].DividendGrowth
           /\ SameRows(an_report, an_results)

\* C15 happens: results collected in rising order of percent change and saved.
C15_Witness ==
    /\ bulk_pc = "done"
    /\ Len(all_results) >= 2
    /\ all_results[1].PercentChange < all_results[2].PercentChange
    /\ saved_results # <<>>

----------------------------------------------------------------------------
(* Claims about the worker pool of the retry pass (C17 checked under          *)
(* SpecRetry, C18 under SpecPool)                                             *)

\* The rows of a symbol, in their order
RowsOf(rows, symbol) == SelectSeq(rows, LAMBDA r : r.Symbol = symbol)

\* C17: for every order in which the workers complete, once the pool has
\* drained, retry_results and retry_failures hold exactly the results and the
\* failures returned by each submitted worker: none lost, none twice, none
\* under another symbol; and collecting a future removes nothing recorded
\* before.
C17_AccumulatorsHoldEveryOutput ==
    /\ [](retry_pc = "done" =>
            /\ \A f \in DOMAIN retry_futures :
                  /\ retry_futures[f].state = "collected"
                  /\ RowsOf(retry_results, f) = retry_futures[f].out.results
                  /\ RowsOf(retry_failures, f) = retry_futures[f].out.failures
            /\ \A k \in DOMAIN retry_results : retry_results[k].Symbol \in DOMAIN retry_futures
            /\ \A k \in DOMAIN retry_failures :
                  retry_failures[k].Symbol \in DOMAIN retry_futures)
    /\ [][RetryCollect =>
            /\ SubSeq(retry_results', 1, Len(retry_results)) = retry_results
            /\ SubSeq(retry_failures', 1, Len(retry_failures)) = retry_failures]_vars

\* C17 happens: every symbol retried, the last one collected first, results
\* and failures both recorded, a failure after a result.
C17_Witness ==
    /\ retry_pc = "done"
    /\ Cardinality(DOMAIN retry_futures) = NumRetrySymbols
    /\ retry_results # <<>>
    /\ retry_results[1].Symbol = RetrySymbols[NumRetrySymbols]
    /\ retry_failures # <<>>
    /\ retry_futures[RetrySymbols[1]].out.failures # <<>>
    /\ Len(trades) = 2

----------------------------------------------------------------------------
(* Claims about the trade processor (checked under SpecTrade) *)

\* The number of six-line blocks of the text
BlockCount == Len(content) \div 6

\* The k-th line of the b-th block
BlockLine(b, k) == content[6 * (b - 1) + k]

\* The text is made of blocks of the stated grammar: date+action line, blank,
\* symbol line, blank, quantity line, price+total line.
FollowsGrammar ==
    /\ Len(content) = 6 * BlockCount
    /\ \A b \in 1..BlockCount :
          /\ BlockLine(b, 1) \in DateActionLines
          /\ BlockLine(b, 2) = Blank
          /\ BlockLine(b, 3) \in SymbolLines
          /\ BlockLine(b, 4) = Blank
          /\ BlockLine(b, 5) \in QuantityLines
          /\ BlockLine(b, 6) \in PriceTotalLines

\* C16: parse_multiple_trades, given a text of blocks that follow the grammar,
\* returns exactly one trade per block, in the order of the text, whose Trade
\* date, Action, Symbol, Quantity, Price and Total are taken from the lines of
\* that block.
C16_OneTradePerBlock ==
    (tp_pc \notin {"idle", "start", "parse"} /\ tp_args.i = "file" /\ FollowsGrammar) =>
        /\ Len(tp_trades) = BlockCount
        /\ \A b \in 1..BlockCount :
              /\ tp_trades[b].TradeDate = BlockLine(b, 1)[1]
              /\ tp_trades[b].Action = BlockLine(b, 1)[2]
              /\ tp_trades[b].Symbol = BlockLine(b, 3)
              /\ tp_trades[b].Quantity = BlockLine(b, 5)[1].v
              /\ tp_trades[b].Price = BlockLine(b, 6)[1].v
              /\ tp_trades[b].Total = BlockLine(b, 6)[2].v

----------------------------------------------------------------------------
(* Claims about divisions by zero (checked under SpecDivision) *)

\* The line at hand is a well-formed lot line of quantity 0
ZeroQuantityLine ==
    /\ lot_lines > 0
    /\ line.kind = "data"
    /\ parse_line(line).error = ""
    /\ parse_line(line).quantity = 0

\* C19: a zero is never checked for before dividing.  A lot line of quantity 0
\* ends main with ZeroDivisionError (per-lot breakeven), lots whose quantities
\* add up to 0 end it with ZeroDivisionError at the TOTAL row and no report is
\* written, project_future_values raises it on such lots, a trade of quantity 0
\* ends the trade processor with it, and a lot of investment amount 0 makes the
\* evaluators' percent change raise it: the lot leaves a failure record of
\* that error, or no row at all in compare_against_benchmark.
C19_ZeroLeadsToDivisionError ==
    /\ ZeroQuantityLine =>
           /\ main_pc = "crashed"
           /\ main_error = "ZeroDivisionError"
           /\ Len(results) = lot_lines - 1
    /\ (main_pc \in {"saved", "crashed"} /\ ~ZeroQuantityLine /\ Len(results) = lot_lines
            /\ SumTo(LotQuantities, Len(results)) = 0) =>
           /\ main_pc = "crashed"
           /\ main_error = "ZeroDivisionError"
           /\ total_row = <<>>
           /\ output_file = <<>>
           /\ project_future_values(results, MainSymbol).error = "ZeroDivisionError"
    /\ (tp_pc \in {"summary", "done", "crashed"}
            /\ \E k \in DOMAIN tp_trades : tp_trades[k].Quantity = 0) =>
           /\ tp_pc = "crashed"
           /\ tp_error = "ZeroDivisionError"
           /\ tp_exports = <<>>
    /\ ev_fn # "none" =>
           /\ \A k \in DOMAIN ev_out.results : ev_out.results[k].InvestmentAmount # 0
           /\ \A k \in DOMAIN ev_trades :
                 (/\ ev_trades[k].OriginalCostBasis = 0
                  /\ ~ev_resp.raised
                  /\ OnOrAfter(ev_resp.data, ev_trades[k].PurchaseDate) # <<>>) =>
                     \E n \in DOMAIN ev_out.failures :
                         ev_out.failures[n]
                             = Failure(EvalSymbol, ev_trades[k].PurchaseDate, ErrZeroDivision)
    /\ \A k \in DOMAIN bench_results : bench_results[k].InvestmentAmount # 0

\* C19 happens: lots of 1 and -1 shares, main ended at the TOTAL row.
C19_Witness ==
    /\ main_pc = "crashed"
    /\ main_error = "ZeroDivisionError"
    /\ Len(results) = 2
    /\ lot_lines = 2
    /\ SumTo(LotQuantities, 2) = 0

----------------------------------------------------------------------------
(* Claims about the trade processor's summary (checked under SpecTrade) *)

\* C20: in every per-symbol summary the final breakeven is at least the
\* highest price of the symbol and at least every lot's breakeven, and every
\* lot row carries "-": a lot's breakeven is compared against a maximum taken
\* after the breakeven itself was appended, so it never exceeds it.
C20_RiskFlagNeverRaised ==
    tp_pc = "done" =>
        \A s \in DOMAIN tp_exports :
            /\ tp_exports[s].FinalBreakeven >= tp_exports[s].HighestPrice
            /\ \A k \in DOMAIN tp_exports[s].lot_flags :
                  /\ tp_exports[s].FinalBreakeven >= tp_exports[s].lot_flags[k].breakeven
                  /\ tp_exports[s].FinalBreakeven >= tp_exports[s].lot_flags[k].price
                  /\ tp_exports[s].lot_flags[k].risk = NoRisk

\* C20 happens: two lots of one symbol, the second with a breakeven above the
\* highest price and above the first lot's breakeven, and still not flagged.
C20_Witness ==
    /\ tp_pc = "done"
    /\ \E s \in DOMAIN tp_exports :
          /\ Len(tp_exports[s].lot_flags) = 2
          /\ tp_exports[s].lot_flags[2].breakeven > tp_exports[s].HighestPrice
          /\ tp_exports[s].lot_flags[2].breakeven > tp_exports[s].lot_flags[1].breakeven
          /\ tp_exports[s].lot_flags[2].risk = NoRisk

----------------------------------------------------------------------------
(* Claims about get_last_trading_day_before (checked under SpecPortfolioRuns) *)

\* l.66-74: the date get_last_trading_day_before is called with
StartTarget ==
    IF pf_args.end_text.kind = "date" THEN pf_args.end_text.val ELSE TODAY

\* get_last_trading_day_before has been called
LastTradingDayCalled ==
    pf_pc \notin {"idle", "start"} /\ pf_args.end_text.kind # "junk"

\* The days on or before the target for which the provider returns data
DataDaysUpToTarget == {d \in pf_spy_days : d <= StartTarget}

LatestDataDay ==
    IF DataDaysUpToTarget = {} THEN NoDate
    ELSE CHOOSE d \in DataDaysUpToTarget : \A e \in DataDaysUpToTarget : e <= d

\* The provider returns empty data for every date
EmptyForEveryDate == pf_spy_days = {} /\ pf_spy_raises = {}

\* The lookups from the target down to the latest day with data raise nothing
ReachesData ==
    /\ DataDaysUpToTarget # {}
    /\ \A e \in LatestDataDay..StartTarget : e \notin pf_spy_raises

\* C21 as stated: the function returns the latest date on or before the
\* target for which the provider returns data, and when the provider returns
\* empty data for every date the loop is never left.
C21_ReturnsOrLoopsForever ==
    LastTradingDayCalled =>
        /\ pf_end_date # NoDate => pf_end_date = LatestDataDay
        /\ ReachesData => (pf_pc = "last_trading_day" \/ pf_end_date = LatestDataDay)
        /\ EmptyForEveryDate => pf_pc = "last_trading_day"

\* What holds in every state once get_last_trading_day_before is called
LastTradingDayInvariant ==
    LastTradingDayCalled =>
        /\ pf_target <= StartTarget
        /\ pf_target >= MinDay
        /\ \A e \in (pf_target + 1)..StartTarget :
              e \notin pf_spy_days /\ e \notin pf_spy_raises
        /\ pf_end_date # NoDate =>
              /\ pf_end_date = pf_target
              /\ pf_end_date = LatestDataDay
        /\ (pf_pc = "crashed" /\ pf_error = ErrOverflow) =>
              /\ pf_target = MinDay
              /\ DataDaysUpToTarget = {}
              /\ pf_end_date = NoDate
        /\ (pf_pc = "crashed" /\ pf_error = ErrProvider) =>
              /\ pf_target \in pf_spy_raises
              /\ pf_end_date = NoDate

\* C21, amended: every turn of the loop leaves the target or steps it back by
\* one day; the loop always ends; it returns the latest date on or before the
\* target for which the provider returns data when no lookup on the way
\* raises; and when the provider returns empty data for every date the loop
\* runs down to datetime.min and ends there with OverflowError, returning
\* nothing.
C21_ReturnsOrEndsAtMinDay ==
    /\ [][PortfolioLastTradingDay =>
             (pf_target' = pf_target \/ pf_target' = pf_target - 1)]_vars
    /\ []LastTradingDayInvariant
    /\ (pf_pc = "last_trading_day") ~> (pf_pc # "last_trading_day")
    /\ (LastTradingDayCalled /\ ReachesData) ~>
           (pf_end_date # NoDate /\ pf_end_date = LatestDataDay)
    /\ (LastTradingDayCalled /\ EmptyForEveryDate) ~>
           (pf_pc = "crashed" /\ pf_error = ErrOverflow /\ pf_end_date = NoDate)

\* C21 happens: no data for any date, the target stepped back from a later
\* day to datetime.min, and the subtraction raised.
C21_Witness ==
    /\ LastTradingDayCalled
    /\ EmptyForEveryDate
    /\ StartTarget > 0
    /\ pf_target = MinDay
    /\ pf_pc = "crashed"
    /\ pf_error = ErrOverflow

----------------------------------------------------------------------------
(* Claims about the totals of calculate_investment_performance (checked    *)
(* under SpecPerformance)                                                  *)

\* The Amount Invested of the rows the first loop has been through, 0 for a
\* row without a valid date or, with results_too FALSE, for one with a result
AmountsOfRows(results_too) ==
    [k \in 1..Len(pf_outcomes) |->
        IF pf_outcomes[k] = "undated" \/ (pf_outcomes[k] = "result" /\ ~results_too)
        THEN 0 ELSE pf_input[k].AmountInvested.val]

RECURSIVE FracSumTo(_, _)
FracSumTo(f, n) == IF n = 0 THEN <<0, 1>> ELSE FracAdd(FracSumTo(f, n - 1), f[n])

\* The Initial Investment of the rows of the report listed before the
\* summary rows, and that of the TOTAL row, in cents
ListedInitialInvestments ==
    [k \in 1..Len(pf_results) |-> pf_output[k].InitialInvestment[1]]

TotalInitialInvestment == pf_output[Len(pf_results) + 1].InitialInvestment[1]

\* A start or end price lookup of the first loop failed
LookupFailed == \E k \in DOMAIN pf_outcomes : pf_outcomes[k] \in {"no_start", "no_end"}

\* What holds of the totals after any number of rows
TotalsOfRows ==
    /\ pf_total_invested = SumTo(AmountsOfRows(TRUE), Len(pf_outcomes))
    /\ pf_total_value
           = FracSumTo([k \in DOMAIN pf_results |-> pf_results[k].CurrentValue],
                       Len(pf_results))
    /\ Len(pf_results) = Cardinality({k \in DOMAIN pf_outcomes : pf_outcomes[k] = "result"})
    /\ \A k \in DOMAIN pf_outcomes :
          pf_outcomes[k] # "undated" <=> pf_input[k].DateInvested # NaT

\* C22 as stated: total_invested is the sum of Amount Invested over the rows
\* with a valid date, total_value the sum of Current Value over the rows with
\* a result, and the TOTAL row's Initial Investment equals the sum of the
\* listed rows' Initial Investment only when no lookup failed.
C22_TotalsAgreeOnlyWithoutFailure ==
    /\ TotalsOfRows
    /\ pf_pc = "saved" =>
          (TotalInitialInvestment
               = SumTo(ListedInitialInvestments, Len(pf_results)) => ~LookupFailed)

\* C22, amended: total_invested is the sum of Amount Invested over the rows
\* with a valid date, total_value the sum of Current Value over the rows with
\* a result, and the TOTAL row's Initial Investment is the sum of the listed
\* rows' Initial Investment plus the Amount Invested of every dated row
\* without a result (lookup failed, or the computation raised): the two are
\* equal when every dated row has a result, and otherwise exactly when those
\* amounts add up to 0.
C22_TotalCountsRowsWithoutResult ==
    /\ TotalsOfRows
    /\ pf_pc = "saved" =>
          /\ pf_output[Len(pf_results) + 1].Symbol = "TOTAL"
          /\ TotalInitialInvestment
                 = SumTo(ListedInitialInvestments, Len(pf_results))
                       + SumTo(AmountsOfRows(FALSE), Len(pf_outcomes))
          /\ (\A k \in DOMAIN pf_outcomes : pf_outcomes[k] \in {"undated", "result"}) =>
                 TotalInitialInvestment = SumTo(ListedInitialInvestments, Len(pf_results))

\* C22 happens: a row with a result, a row of amount 0 whose lookup failed,
\* and a TOTAL row that agrees with the rows listed all the same.
C22_Witness ==
    /\ pf_pc = "saved"
    /\ pf_results # <<>>
    /\ LookupFailed
    /\ pf_total_invested > 0
    /\ TotalInitialInvestment = SumTo(ListedInitialInvestments, Len(pf_results))

----------------------------------------------------------------------------
(* The specifications *)

SpecInterest == InitInterest /\ [][NextInterest]_vars

SpecEval == InitEval /\ [][NextEval]_vars

SpecBulk == InitBulk /\ [][NextBulk]_vars

SpecAnalyze == InitAnalyze /\ [][NextAnalyze]_vars

\* The two batch runs: compare_sp500_performance and analyze_sp500
InitBatch == InitBulk \/ InitAnalyze
NextBatch == NextBulk \/ NextAnalyze
SpecBatch == InitBatch /\ [][NextBatch]_vars

SpecRetry == InitRetry /\ [][NextRetry]_vars

\* compare_sp500_performance and the retry pass
InitPool == InitBulk \/ InitRetry
NextPool == NextBulk \/ NextRetry
SpecPool == InitPool /\ [][NextPool]_vars

SpecBench == InitBench /\ [][NextBench]_vars

SpecMain == InitMain /\ [][NextMain]_vars

InitTrade ==
    /\ TODAY \in Dates
    /\ future_disposal_date = 0
    /\ principal = 0
    /\ start_date = 0
    /\ int_fn = "none"
    /\ int_ret = NoRet
    /\ EvalIdle
    /\ trades = <<>>
    /\ BulkIdle
    /\ BenchIdle
    /\ MainIdle
    /\ AnalyzeIdle
    /\ PortfolioIdle
    /\ tp_pc = "start"
    /\ \/ /\ tp_args \in {[i |-> "file", c |-> FALSE], [i |-> "", c |-> TRUE]}
          /\ content \in Contents
       \/ /\ tp_args \in {[i |-> "missing", c |-> FALSE], [i |-> "", c |-> FALSE]}
          /\ content = <<>>
    /\ tp_trades = <<>>
    /\ tp_error = ""
    /\ tp_message = ""
    /\ trades_csv = <<>>
    /\ tp_exports = <<>>

SpecTrade == InitTrade /\ [][NextTrade]_vars

\* The computations that divide: main, the trade processor and the evaluators,
\* each started on its own (an evaluator is applied while nothing else runs)
InitDivision == InitMain \/ InitTrade \/ InitEval \/ InitBench
NextDivision ==
    \/ NextMain
    \/ NextTrade
    \/ (MainIdle /\ TradeIdle /\ BenchIdle /\ NextEval)
    \/ NextBench
SpecDivision == InitDivision /\ [][NextDivision]_vars

InitPortfolio ==
    /\ TODAY \in Dates
    /\ future_disposal_date = 0
    /\ principal = 0
    /\ start_date = 0
    /\ int_fn = "none"
    /\ int_ret = NoRet
    /\ EvalIdle
    /\ trades = <<>>
    /\ BulkIdle
    /\ BenchIdle
    /\ MainIdle
    /\ AnalyzeIdle
    /\ TradeIdle
    /\ pf_pc = "start"
    /\ pf_args \in [end_text : EndDateTexts, file_exists : BOOLEAN]
    /\ pf_spy_days \in SUBSET Dates
    /\ pf_spy_raises \in SUBSET (Dates \ pf_spy_days)
    /\ pf_target = 0
    /\ pf_end_date = NoDate
    /\ pf_message = ""
    /\ pf_error = ""
    /\ pf_input = <<>>
    /\ pf_row = 1
    /\ pf_results = <<>>
    /\ pf_total_invested = 0
    /\ pf_total_value = <<0, 1>>
    /\ pf_total_spy_value = <<0, 1>>
    /\ pf_spy_data = <<>>
    /\ pf_outcomes = <<>>
    /\ pf_output = <<>>

SpecPortfolio == InitPortfolio /\ [][NextPortfolio]_vars

\* calculate_investment_performance runs on as long as it has a step to take
SpecPortfolioRuns == SpecPortfolio /\ WF_vars(NextPortfolio)

\* calculate_investment_performance, from the prompt to the saved file
SpecPerformance == InitPortfolio /\ [][NextPerformance]_vars

\* The three tools that read an input file
InitTools == InitMain \/ InitTrade \/ InitPortfolio
NextTools == NextMain \/ NextTrade \/ NextPortfolio
SpecTools == InitTools /\ [][NextTools]_vars

Init == InitInterest \/ InitEval \/ InitBulk \/ InitRetry \/ InitBench \/ InitMain
            \/ InitAnalyze \/ InitTrade \/ InitPortfolio
Next == NextInterest \/ NextEval \/ NextBulk \/ NextRetry \/ NextBench \/ NextMain
            \/ NextAnalyze \/ NextTrade \/ NextPerformance
Spec == Init /\ [][Next]_vars

====
